---- MODULE Spec2Model ----
(***************************************************************************)
(* Model of the search-progress orchestration of the Alias frontend        *)
(* (src/frontend/src/App.tsx): the progress simulator (startProgress and   *)
(* its interval callback), the reconciler (finishProgress, resetProgress), *)
(* the search operation (performSearch, refreshHistory), the session       *)
(* reset (handleLogout) and the 401 hook of src/frontend/src/api.ts; and   *)
(* of its results table: the projection and ordering (tableData), the      *)
(* filters (filteredTableData), the row selection with its reconciliation  *)
(* effect, and the create and delete operations (submitManual,             *)
(* handleDeletePartRow) with the re-fetch of the cached collection; of the *)
(* request form (handleItemChange, addRow, removeRow, handleUpload) and    *)
(* the component's unmount; of two listing requests answered out of order; *)
(* and, from the variant of the component in src/unnamed/part_001,         *)
(* of the batch search over the selection (handleSearchSelected) and the   *)
(* presentation settings (tableSize, fontSize, handleColumnResize).        *)
(*                                                                         *)
(* The UI runs on one event loop: every action below is one macrotask      *)
(* (a click handler, a timer callback, or the continuation that runs when  *)
(* a network response arrives, followed by all the microtasks it queues).  *)
(***************************************************************************)
EXTENDS Integers, Sequences, FiniteSets, TLC

\* ------------------------------------------------------------------ bounds
MaxSearches == 2      \* performSearch invocations that may be suspended at once
MaxTimers == 2        \* interval-timer handles the window hands out
MaxHistLen == 2       \* longest stage history of a drawn search response
MaxRecords == 2       \* records in the canonical collection
MaxActiveFilters == 2 \* table filters set at the same time
MaxInFlight == 1      \* operations that may be suspended at once where create and delete occur
MaxRows == 2          \* rows of the request form
MaxResized == 2       \* table columns whose width differs from its initial value

\* ------------------------------------------------- stage vocabulary (l.88)
STAGE_SEQUENCE == <<"Internet", "googlesearch", "OpenAI">>
StageCount == Len(STAGE_SEQUENCE)
StageIdx == 1..StageCount

StageNames == {STAGE_SEQUENCE[i] : i \in StageIdx}

\* stageLabels[name] ?? name : a label for the three stages, the name itself
\* for any other string
stageLabels(name) ==
    CASE name = "Internet" -> "Internet - obshchiy poisk"
      [] name = "googlesearch" -> "GoogleSearch - Google CSE"
      [] name = "OpenAI" -> "OpenAI - ChatGPT"
      [] OTHER -> name

IdleSentinel == "--"          \* the em-dash placeholder
Undefined == "undefined"      \* an absent optional string field
Null == "null"

\* StageStatus['status']
StageOutcomes == {"success", "low-confidence", "no-results", "skipped"}

\* an optional stage_history: absent, or a list of StageStatus entries
NoHistory == [defined |-> FALSE, entries |-> <<>>]
SomeHistory(h) == [defined |-> TRUE, entries |-> h]

\* ------------------------------------------------------ snackbar messages
NoNotice == "null"
ValidationNotice == "add at least one part number"
SearchErrorNotice == "search failed"
NoResultsNotice == "no manufacturers found"
ListErrorNotice == "could not load history"
SessionExpiredNotice == "session expired"
WelcomeNotice == "welcome"
RowDeletedNotice == "row deleted"
AddedNotice == "added"
ManualValidationNotice == "enter a part number"
NoSelectionNotice == "select at least one row"
CreateErrorNotice == "could not add the record"
DeleteErrorNotice == "could not delete the row"
UploadedNotice == "file processed"
UploadErrorNotice == "could not upload the file"

NoTimer == 0                  \* progressTimerRef.current === null
TimerIds == 1..MaxTimers

VARIABLES
    auth,               \* TRUE while a session exists (auth !== null)
    loading,            \* the loading flag
    stageProgress,      \* StageProgressEntry[] indexed 1..StageCount
    currentService,     \* the current-service label
    progressIndexRef,   \* the simulator cursor (0-based, as in the source)
    progressTimerRef,   \* the timer handle held by the component
    timers,             \* interval timers live in the window
    results,            \* the results of the last search response written
    history,            \* the cached canonical collection
    snackbar,           \* the transient notice
    tableFilters,       \* the column filters of the results table
    manufacturerFilter, \* 'all', 'found' or 'missing'
    selectedRows,       \* the ids of the selected rows, in selection order
    items,              \* the rows of the request form
    selectedIds,        \* the ids selected for a batch search
    themeMode,          \* 'light', 'dark' or 'holiday'
    tableSize,          \* the density tier of the table
    fontSize,           \* the font-size tier of the table
    columnWidths,       \* the width of every table column
    storage,            \* window.localStorage, with the keys the component writes
    mounted,            \* TRUE until the component unmounts
    mutations,          \* the suspended handleDeletePartRow and submitManual
                        \* invocations, oldest first
    searches            \* the suspended performSearch invocations, oldest first

vars == <<auth, loading, stageProgress, currentService, progressIndexRef,
          progressTimerRef, timers, results, history, snackbar,
          tableFilters, manufacturerFilter, selectedRows, items, selectedIds,
          themeMode, tableSize, fontSize, columnWidths, storage, mounted,
          searches, mutations>>

\* ------------------------------------------------------ texts
\* Texts that the code trims, lower-cases or searches are lists of characters
\* over a small alphabet, so that these conversions are computed.
IsSpace(c) == c = " "

RECURSIVE trimStart(_)
trimStart(str) ==
    IF str # <<>> /\ IsSpace(Head(str)) THEN trimStart(Tail(str)) ELSE str

RECURSIVE trimEnd(_)
trimEnd(str) ==
    IF str # <<>> /\ IsSpace(str[Len(str)])
    THEN trimEnd(SubSeq(str, 1, Len(str) - 1))
    ELSE str

trim(str) == trimEnd(trimStart(str))

\* String.prototype.toLowerCase over the alphabet of the model
UpperCase == <<"A", "B", "G", "I", "O">>
LowerCase == <<"a", "b", "g", "i", "o">>
toLowerCase(str) ==
    [i \in 1..Len(str) |->
        IF \E k \in 1..Len(UpperCase) : UpperCase[k] = str[i]
        THEN LowerCase[CHOOSE k \in 1..Len(UpperCase) : UpperCase[k] = str[i]]
        ELSE str[i]]

\* String.prototype.includes
includes(str, term) ==
    \E i \in 0..(Len(str) - Len(term)) : SubSeq(str, i + 1, i + Len(term)) = term

\* an optional text field of a record: null or undefined, or a string
Absent == [defined |-> FALSE, value |-> <<>>]
Present(text) == [defined |-> TRUE, value |-> text]

\* value ?? fallback
Coalesce(opt, fallback) == IF opt.defined THEN opt.value ELSE fallback

\* the em-dash placeholder of the table, as a text
Placeholder == <<"-">>

\* ------------------------------------------------------ the results table
\* PartRead, with the fields the table reads
PartRead(id, pn, mn, al, sm, ms, stage, url, created) ==
    [id |-> id, part_number |-> pn, manufacturer_name |-> mn, alias_used |-> al,
     submitted_manufacturer |-> sm, match_status |-> ms, search_stage |-> stage,
     source_url |-> url, created_at |-> created]

\* the records a listing may hold for one id. Under an odd id: every optional
\* field absent, or a mismatch with an unknown stage; under an even id: every
\* field set, or a manufacturer that is the placeholder text itself, with
\* empty strings. The first of each pair were created at the same instant,
\* written differently.
RecordsOf(id) ==
    IF id % 2 = 1
    THEN {PartRead(id, <<"A", "b">>, Absent, Absent, Absent, Null, Absent, Absent,
                   "2024-01-01T00:00:01Z"),
          PartRead(id, <<"b">>, Present(<<"B">>), Absent, Present(<<"a">>),
                   "mismatch", Present(<<"x">>), Absent, "2024-01-01T00:00:02Z")}
    ELSE {PartRead(id, <<"a">>, Present(<<"a", "B">>), Present(<<"b">>), Present(<<"A">>),
                   "matched", Present(<<"g">>), Present(<<"a", "b">>),
                   "2024-01-01T00:00:01.000Z"),
          PartRead(id, <<" ", "a">>, Present(Placeholder), Present(<<>>), Absent,
                   Undefined, Present(<<>>), Present(<<"B">>), "2023-12-31T23:59:59Z")}

\* new Date(created_at).getTime(), in milliseconds from 2024-01-01T00:00:00Z
getTime(created) ==
    CASE created = "2024-01-01T00:00:01Z" -> 1000
      [] created = "2024-01-01T00:00:01.000Z" -> 1000
      [] created = "2024-01-01T00:00:02Z" -> 2000
      [] created = "2023-12-31T23:59:59Z" -> 0 - 1000

\* the comparator of the sort in tableData
compareDescending(a, b) == getTime(b.created_at) - getTime(a.created_at)
compare(a, b) == getTime(a.created_at) - getTime(b.created_at)

\* [...history].sort(compare): Array.prototype.sort is stable, so a record
\* goes behind every record that does not compare greater
RECURSIVE insertSorted(_, _)
insertSorted(sorted, record) ==
    IF sorted = <<>> \/ compare(sorted[Len(sorted)], record) <= 0
    THEN Append(sorted, record)
    ELSE Append(insertSorted(SubSeq(sorted, 1, Len(sorted) - 1), record),
                sorted[Len(sorted)])

RECURSIVE sort(_)
sort(records) ==
    IF records = <<>> THEN <<>>
    ELSE insertSorted(sort(SubSeq(records, 1, Len(records) - 1)), records[Len(records)])

\* stageLabels[stage] ?? stage over texts: the stage names Internet,
\* googlesearch and OpenAI are written i, g and o, and their labels shortened
stageLabelText(stage) ==
    CASE stage = <<"i">> -> <<"I", " ", "a">>
      [] stage = <<"g">> -> <<"G", " ", "b">>
      [] stage = <<"o">> -> <<"O", " ", "a">>
      [] OTHER -> stage

\* the service cell: a missing or empty stage shows the placeholder
serviceAlwaysLabel(stage) == stageLabelText(stage.value)
service(stage) ==
    IF stage.defined /\ stage.value # <<>> THEN stageLabelText(stage.value) ELSE Placeholder

\* one row of tableData, with the fields the filters, the ordering and the
\* selection read
project(record) ==
    [id |-> record.id,
     article |-> record.part_number,
     manufacturer |-> Coalesce(record.manufacturer_name, Placeholder),
     alias |-> Coalesce(record.alias_used, Placeholder),
     submitted |-> Coalesce(record.submitted_manufacturer, Placeholder),
     matchStatus |-> IF record.match_status = Undefined THEN Null ELSE record.match_status,
     service |-> service(record.search_stage),
     source |-> Coalesce(record.source_url, Placeholder),
     createdAt |-> record.created_at]

tableData(records) ==
    LET sorted == sort(records)
    IN [i \in 1..Len(sorted) |-> project(sorted[i])]

\* ------------------------------------------------------ the table filters
TextColumns == {"article", "manufacturer", "alias", "submitted", "service", "source"}

\* the initial value of tableFilters
NoTableFilters ==
    [article |-> <<>>, manufacturer |-> <<>>, alias |-> <<>>, submitted |-> <<>>,
     service |-> <<>>, source |-> <<>>, match |-> "all"]

\* row.<column>.toLowerCase().includes(tableFilters.<column>.trim().toLowerCase())
matchesUntrimmed(value, filterText) == includes(toLowerCase(value), toLowerCase(filterText))
matches(value, filterText) == includes(toLowerCase(value), toLowerCase(trim(filterText)))

isFound(row) == row.manufacturer # Placeholder /\ row.matchStatus # "mismatch"

isMissingBoth(row) == row.manufacturer = Placeholder /\ row.matchStatus = "mismatch"
isMissing(row) == row.manufacturer = Placeholder \/ row.matchStatus = "mismatch"

matchesMatchStatusNoneAsAll(row, match) ==
    IF match = "all" \/ match = "none" THEN TRUE ELSE row.matchStatus = match
matchesMatchStatus(row, match) ==
    IF match = "all" THEN TRUE
    ELSE IF match = "none" THEN row.matchStatus = Null
    ELSE row.matchStatus = match

\* the callback of tableData.filter
keeps(row, filters, found) ==
    IF found = "found" /\ ~isFound(row) THEN FALSE
    ELSE IF found = "missing" /\ ~isMissing(row) THEN FALSE
    ELSE /\ matches(row.article, filters.article)
         /\ matches(row.manufacturer, filters.manufacturer)
         /\ matches(row.alias, filters.alias)
         /\ matches(row.submitted, filters.submitted)
         /\ matches(row.service, filters.service)
         /\ matches(row.source, filters.source)
         /\ matchesMatchStatus(row, filters.match)

filteredRowsNewestFirst(rows, filters, found) ==
    LET kept == SelectSeq(rows, LAMBDA row : keeps(row, filters, found))
    IN [i \in 1..Len(kept) |-> kept[Len(kept) + 1 - i]]
filteredRows(rows, filters, found) == SelectSeq(rows, LAMBDA row : keeps(row, filters, found))

\* the effect that follows a change of filteredTableData:
\* setSelectedRows(prev => prev.filter(id => filteredTableData.some(row => row.id === id)))
Ids(rows) == {rows[i].id : i \in 1..Len(rows)}
reconcileKeepsAll(selected, rows) == selected
reconcile(selected, rows) == SelectSeq(selected, LAMBDA id : id \in Ids(rows))

\* ------------------------------------------------ presentation settings
ThemeModes == {"light", "dark", "holiday"}
TableSizes == {"small", "medium"}
FontSizes == {"small", "medium", "large"}

\* the initial value of columnWidths
DefaultWidths ==
    [article |-> 120, manufacturer |-> 150, alias |-> 120, submitted |-> 120,
     match |-> 120, confidence |-> 100, source |-> 200, actions |-> 300]

Columns == DOMAIN DefaultWidths

\* the floor of handleColumnResize
MinWidth == 80

Max(a, b) == IF a >= b THEN a ELSE b

\* ----------------------------------------------------- component state
\* The component state as one value, so that a handler that calls other
\* handlers is the composition of their effects.
View ==
    [auth |-> auth, loading |-> loading, stageProgress |-> stageProgress,
     currentService |-> currentService, progressIndexRef |-> progressIndexRef,
     progressTimerRef |-> progressTimerRef, timers |-> timers,
     results |-> results, history |-> history, snackbar |-> snackbar,
     tableFilters |-> tableFilters, manufacturerFilter |-> manufacturerFilter,
     selectedRows |-> selectedRows, items |-> items, selectedIds |-> selectedIds]

\* filteredTableData of a component state
filteredTableData(st) == filteredRows(tableData(st.history), st.tableFilters, st.manufacturerFilter)

\* A state update of a component that has unmounted is dropped; the refs and
\* the window's timers are not component state and are written all the same.
Rendered(st) ==
    IF mounted THEN st
    ELSE [View EXCEPT !.progressIndexRef = st.progressIndexRef,
                      !.progressTimerRef = st.progressTimerRef,
                      !.timers = st.timers]

\* the effect on [auth]: the session is written to the storage, or removed
PersistAuth(store, session) == [store EXCEPT !.auth = session]

\* The handler's state updates are rendered; when the render gives a new
\* filteredTableData (the collection or a filter changed) its effect runs
\* and reconciles the selection, and the effect on [auth] runs.
Commit(st) ==
    LET r == Rendered(st)
    IN /\ auth' = r.auth
       /\ loading' = r.loading
       /\ stageProgress' = r.stageProgress
       /\ currentService' = r.currentService
       /\ progressIndexRef' = r.progressIndexRef
       /\ progressTimerRef' = r.progressTimerRef
       /\ timers' = r.timers
       /\ results' = r.results
       /\ history' = r.history
       /\ snackbar' = r.snackbar
       /\ tableFilters' = r.tableFilters
       /\ manufacturerFilter' = r.manufacturerFilter
       /\ selectedRows' =
              IF <<r.history, r.tableFilters, r.manufacturerFilter>>
                     # <<history, tableFilters, manufacturerFilter>>
              THEN reconcile(r.selectedRows, filteredTableData(r))
              ELSE r.selectedRows
       /\ items' = r.items
       /\ selectedIds' = r.selectedIds
       /\ storage' = PersistAuth(storage, r.auth)
       /\ UNCHANGED <<themeMode, tableSize, fontSize, columnWidths, mounted>>

Entry(name, state, message) == [name |-> name, state |-> state, message |-> message]

IdleEntries == [i \in StageIdx |-> Entry(STAGE_SEQUENCE[i], "idle", Undefined)]

\* window.clearInterval(id): the timer leaves the window's active timers, and
\* a callback of it that is already due does not run
clearInterval(ts, id) == ts \ {id}

\* window.setInterval: a handle that no live timer and no reference holds
FreshTimer(st) ==
    CHOOSE t \in TimerIds \ (st.timers \cup {st.progressTimerRef}) :
        \A u \in TimerIds \ (st.timers \cup {st.progressTimerRef}) : t <= u

CanSetInterval(st) == TimerIds \ (st.timers \cup {st.progressTimerRef}) # {}

\* ------------------------------------------------------ pure helpers
Min(a, b) == IF a <= b THEN a ELSE b

\* Array.prototype.find over the positions that satisfy the callback: the
\* first of them, 0 if there is none
FindIndex(hits) ==
    IF hits = {} THEN 0 ELSE CHOOSE i \in hits : \A j \in hits : i <= j

\* [...seq].reverse().find: the last position that satisfies the callback
FindLastIndex(hits) ==
    IF hits = {} THEN 0 ELSE CHOOSE i \in hits : \A j \in hits : j <= i

\* ------------------------------------------------------ resetProgress
resetProgress(st) ==
    [st EXCEPT !.stageProgress = IdleEntries, !.currentService = IdleSentinel]

\* ------------------------------------------------------ startProgress
StartEntriesOffByOne ==
    [i \in StageIdx |->
        Entry(STAGE_SEQUENCE[i], IF i = 2 THEN "active" ELSE "pending", Undefined)]
StartEntries ==
    [i \in StageIdx |->
        Entry(STAGE_SEQUENCE[i], IF i = 1 THEN "active" ELSE "pending", Undefined)]

\* the timers left live by the guard at the head of startProgress
StartKeepsTimer(ts, ref) == ts
StartClearsTimer(ts, ref) == IF ref # NoTimer THEN clearInterval(ts, ref) ELSE ts

startProgressKeepsMessages(st) ==
    LET t == FreshTimer(st)
    IN [st EXCEPT !.timers = StartClearsTimer(st.timers, st.progressTimerRef) \cup {t},
                  !.progressTimerRef = t,
                  !.progressIndexRef = 0,
                  !.stageProgress =
                      [i \in StageIdx |->
                          [st.stageProgress[i] EXCEPT
                              !.state = IF i = 1 THEN "active" ELSE "pending"]],
                  !.currentService = stageLabels(STAGE_SEQUENCE[1])]
startProgress(st) ==
    LET t == FreshTimer(st)
    IN [st EXCEPT !.timers = StartClearsTimer(st.timers, st.progressTimerRef) \cup {t},
                  !.progressTimerRef = t,
                  !.progressIndexRef = 0,
                  !.stageProgress = StartEntries,
                  !.currentService = stageLabels(STAGE_SEQUENCE[1])]

\* ------------------------------------- the interval callback of startProgress
\* prev.map((entry, idx) => ...) with 0-based idx and the advanced cursor
TickEntryKeepsEarlier(entry, idx, cursor) ==
    IF idx = cursor THEN [entry EXCEPT !.state = "active"] ELSE entry
TickEntryOffByOne(entry, idx, cursor) ==
    IF idx <= cursor THEN [entry EXCEPT !.state = "done"]
    ELSE IF idx = cursor + 1 THEN [entry EXCEPT !.state = "active"]
    ELSE [entry EXCEPT !.state = "pending"]
TickEntry(entry, idx, cursor) ==
    IF idx < cursor THEN [entry EXCEPT !.state = "done"]
    ELSE IF idx = cursor THEN [entry EXCEPT !.state = "active"]
    ELSE [entry EXCEPT !.state = "pending"]

tickNeverCancels(st) ==
    LET cursor == Min(st.progressIndexRef + 1, StageCount - 1)
    IN [st EXCEPT !.progressIndexRef = cursor,
                  !.stageProgress =
                      [i \in StageIdx |-> TickEntry(st.stageProgress[i], i - 1, cursor)],
                  !.currentService = stageLabels(STAGE_SEQUENCE[cursor + 1])]
tickKeepsService(st) ==
    LET cursor == Min(st.progressIndexRef + 1, StageCount - 1)
        last == cursor = StageCount - 1 /\ st.progressTimerRef # NoTimer
    IN [st EXCEPT !.progressIndexRef = cursor,
                  !.stageProgress =
                      [i \in StageIdx |-> TickEntry(st.stageProgress[i], i - 1, cursor)],
                  !.timers = IF last THEN clearInterval(st.timers, st.progressTimerRef)
                             ELSE st.timers,
                  !.progressTimerRef = IF last THEN NoTimer ELSE st.progressTimerRef]
tick(st) ==
    LET cursor == Min(st.progressIndexRef + 1, StageCount - 1)
        last == cursor = StageCount - 1 /\ st.progressTimerRef # NoTimer
    IN [st EXCEPT !.progressIndexRef = cursor,
                  !.stageProgress =
                      [i \in StageIdx |-> TickEntry(st.stageProgress[i], i - 1, cursor)],
                  !.currentService = stageLabels(STAGE_SEQUENCE[cursor + 1]),
                  !.timers = IF last THEN clearInterval(st.timers, st.progressTimerRef)
                             ELSE st.timers,
                  !.progressTimerRef = IF last THEN NoTimer ELSE st.progressTimerRef]

\* ------------------------------------------------------ finishProgress
mappedStateSwapped(status) ==
    CASE status = "success" -> "done"
      [] status = "low-confidence" -> "error"
      [] status = "no-results" -> "warning"
      [] OTHER -> "skipped"
mappedState(status) ==
    CASE status = "success" -> "done"
      [] status = "low-confidence" -> "warning"
      [] status = "no-results" -> "error"
      [] OTHER -> "skipped"

\* STAGE_SEQUENCE.map((name) => ...) over a non-empty history
FinishEntries(h) ==
    [i \in StageIdx |->
        LET name == STAGE_SEQUENCE[i]
            k == FindIndex({x \in 1..Len(h) : h[x].name = name})
        IN IF k = 0
           THEN Entry(name, "pending", Undefined)
           ELSE Entry(name, mappedState(h[k].status),
                      IF h[k].message = Undefined THEN Null ELSE h[k].message)]

\* finalStage and the current-service value derived from it
FinishServiceAnyFallback(h) ==
    LET s == FindLastIndex({x \in 1..Len(h) : h[x].status = "success"})
        w == FindIndex({x \in 1..Len(h) : h[x].status # "success"})
    IN IF s # 0 THEN stageLabels(h[s].name)
       ELSE IF w # 0 THEN stageLabels(h[w].name)
       ELSE IdleSentinel
FinishServiceFirstSuccess(h) ==
    LET s == FindIndex({x \in 1..Len(h) : h[x].status = "success"})
        w == FindIndex({x \in 1..Len(h) : h[x].status = "low-confidence"})
    IN IF s # 0 THEN stageLabels(h[s].name)
       ELSE IF w # 0 THEN stageLabels(h[w].name)
       ELSE IdleSentinel
FinishService(h) ==
    LET s == FindLastIndex({x \in 1..Len(h) : h[x].status = "success"})
        w == FindIndex({x \in 1..Len(h) : h[x].status = "low-confidence"})
    IN IF s # 0 THEN stageLabels(h[s].name)
       ELSE IF w # 0 THEN stageLabels(h[w].name)
       ELSE IdleSentinel

\* the timer handling at the head of finishProgress
FinishKeepsTimer(st) == st
FinishClearsTimer(st) ==
    IF st.progressTimerRef # NoTimer
    THEN [st EXCEPT !.timers = clearInterval(st.timers, st.progressTimerRef),
                    !.progressTimerRef = NoTimer]
    ELSE st

\* what finishProgress does when there is no history to reconcile with
NoHistoryKeepsFrame(st) == st
NoHistoryResets(st) == resetProgress(st)

finishProgressOnlyWhenRunning(st, hist) ==
    LET st1 == FinishClearsTimer(st)
    IN IF ~hist.defined \/ Len(hist.entries) = 0 \/ st.progressTimerRef = NoTimer
       THEN NoHistoryResets(st1)
       ELSE [st1 EXCEPT !.stageProgress = FinishEntries(hist.entries),
                        !.currentService = FinishService(hist.entries)]
finishProgress(st, hist) ==
    LET st1 == FinishClearsTimer(st)
    IN IF ~hist.defined \/ Len(hist.entries) = 0
       THEN NoHistoryResets(st1)
       ELSE [st1 EXCEPT !.stageProgress = FinishEntries(hist.entries),
                        !.currentService = FinishService(hist.entries)]

\* ------------------------------------------------------ the request rows
\* PartRequestItem; part numbers are texts, so that trim() is computed. The
\* manufacturer hint is carried along by every handler and read by none.
Item(pn) == [part_number |-> pn]

emptyItem == Item(<<>>)

\* ------------------------------------------------------ handleLogout
handleLogoutKeepsRows(st, message) ==
    LET st1 == resetProgress([st EXCEPT !.auth = FALSE, !.results = <<>>, !.history = <<>>])
    IN [st1 EXCEPT !.loading = FALSE,
                   !.snackbar = IF message # NoNotice THEN message ELSE st.snackbar]
handleLogout(st, message) ==
    LET st1 == resetProgress([st EXCEPT !.auth = FALSE, !.results = <<>>, !.history = <<>>,
                                        !.items = <<emptyItem>>])
    IN [st1 EXCEPT !.loading = FALSE,
                   !.snackbar = IF message # NoNotice THEN message ELSE st.snackbar]

\* unauthorizedHandler of api.ts: set by an effect when the component mounts,
\* set to null by its cleanup
unauthorizedHandler == mounted

\* the response interceptor of api.ts: a 401 runs the registered hook, which
\* the component sets to handleLogout with the session-expired message; the
\* error is rejected on to the caller in either case
onRejected(st, unauthorized) ==
    IF unauthorized /\ unauthorizedHandler THEN handleLogout(st, SessionExpiredNotice) ELSE st

\* ------------------------------------------------------ inputs
\* the lists performSearch is invoked with: the request rows (never empty) or
\* the uploaded items (the button needs at least one)
TargetLists ==
    {<<Item(<<>>)>>,
     <<Item(<<" ">>)>>,
     <<Item(<<"A">>)>>,
     <<Item(<<" ">>), Item(<<" ", "A", " ">>)>>,
     <<Item(<<>>), Item(<<" ">>)>>}

\* targets.filter((item) => item.part_number.trim().length)
filledUntrimmed(targets) == SelectSeq(targets, LAMBDA item : Len(item.part_number) > 0)
filled(targets) == SelectSeq(targets, LAMBDA item : Len(trim(item.part_number)) > 0)

StageStatus(name, status, message) == [name |-> name, status |-> status, message |-> message]
Result(hist) == [stage_history |-> hist]

\* stage histories a search response may carry in this specification
H_CSE ==
    <<StageStatus("Internet", "no-results", Undefined),
      StageStatus("googlesearch", "success", "matched via CSE")>>

\* response.results of the search request
SearchResponses ==
    {<<>>,
     <<Result(SomeHistory(<<>>))>>,
     <<Result(NoHistory), Result(SomeHistory(H_CSE))>>,
     <<Result(SomeHistory(H_CSE))>>}

\* the data of a listing response: the canonical collection
Listings == {<<>>, <<CHOOSE r \in RecordsOf(2) : r.match_status = "matched">>}

\* ------------------------------------------------------ initial state
Init ==
    /\ auth = FALSE
    /\ loading = FALSE
    /\ stageProgress = IdleEntries
    /\ currentService = IdleSentinel
    /\ progressIndexRef = 0
    /\ progressTimerRef = NoTimer
    /\ timers = {}
    /\ results = <<>>
    /\ history = <<>>
    /\ snackbar = NoNotice
    /\ tableFilters = NoTableFilters
    /\ manufacturerFilter = "all"
    /\ selectedRows = <<>>
    /\ items = <<emptyItem>>
    /\ selectedIds = {}
    /\ themeMode = "light"
    /\ tableSize = "small"
    /\ fontSize = "medium"
    /\ columnWidths = DefaultWidths
    /\ storage = [auth |-> FALSE, theme |-> "light"]
    /\ mounted = TRUE
    /\ searches = <<>>
    /\ mutations = <<>>

\* ------------------------------------------------------ session
\* handleLoginSubmit, when the login request succeeds: setAuth and the
\* welcome notice (the profile check that the [auth] effect starts afterwards
\* is not part of this model)
Login ==
    /\ mounted
    /\ ~auth
    /\ Commit([View EXCEPT !.auth = TRUE, !.snackbar = WelcomeNotice])
    /\ UNCHANGED <<searches, mutations>>

\* the logout button of the application bar
Logout ==
    /\ mounted
    /\ auth
    /\ Commit(handleLogout(View, NoNotice))
    /\ UNCHANGED <<searches, mutations>>

\* Snackbar onClose
CloseSnackbar ==
    /\ mounted
    /\ snackbar # NoNotice
    /\ Commit([View EXCEPT !.snackbar = NoNotice])
    /\ UNCHANGED <<searches, mutations>>

\* ------------------------------------------------------ the simulator tick
\* the interval callback of a live timer runs
Tick(t) ==
    /\ t \in timers
    /\ Commit(tick(View))
    /\ UNCHANGED <<searches, mutations>>

\* ------------------------------------------------------ performSearch
\* the suspended invocations, oldest first
SearchIds == 1..Len(searches)
Remove(seq, i) == SubSeq(seq, 1, i - 1) \o SubSeq(seq, i + 1, Len(seq))

\* the search buttons are rendered only with a session and are disabled
\* while the loading flag is set
CanSubmitWhileLoading == mounted /\ auth
CanSubmit == mounted /\ auth /\ ~loading

\* performSearch with no filled item: notice, finishProgress(), return
ValidationRejects(targets) ==
    /\ CanSubmit
    /\ Len(filled(targets)) = 0
    /\ Commit(finishProgress([View EXCEPT !.snackbar = ValidationNotice], NoHistory))
    /\ UNCHANGED <<searches, mutations>>

\* the items of the body of the search request: searchParts(filled, ...)
PayloadOfTargets(targets) == targets
Payload(targets) == filled(targets)

\* a performSearch invocation suspended at the search request it has sent,
\* with the handler that awaits its return
Invocation(targets, caller) ==
    [pc |-> "searchParts", payload |-> Payload(targets), caller |-> caller,
     response |-> <<>>, latestStageHistory |-> NoHistory]

\* performSearch up to its first suspension: setLoading(true), startProgress(),
\* and the search request is sent
performSearchBegins(targets, caller) ==
    /\ CanSubmit
    /\ Len(filled(targets)) > 0
    /\ Len(searches) < MaxSearches
    /\ CanSetInterval(View)
    /\ Commit(startProgress([View EXCEPT !.loading = TRUE]))
    /\ searches' = Append(searches, Invocation(targets, caller))
    /\ UNCHANGED mutations

\* submitSearch and runUploadedSearch await performSearch and do nothing more
SearchBegins(targets) == performSearchBegins(targets, "submitSearch")

PerformSearch(targets) == ValidationRejects(targets) \/ SearchBegins(targets)

\* the search request resolved: latestStageHistory, setResults, and
\* refreshHistory issues the listing request
SearchResolvesAnyHistory(s, resp) ==
    /\ s \in SearchIds
    /\ searches[s].pc = "searchParts"
    /\ Commit([View EXCEPT !.results = resp])
    /\ searches' = [searches EXCEPT ![s] =
                       [pc |-> "listParts", payload |-> <<>>, caller |-> searches[s].caller,
                        response |-> resp,
                        latestStageHistory |->
                            LET carrying == {k \in 1..Len(resp) : resp[k].stage_history.defined}
                            IN IF carrying # {} THEN resp[FindIndex(carrying)].stage_history
                               ELSE NoHistory]]
    /\ UNCHANGED mutations
SearchResolves(s, resp) ==
    /\ s \in SearchIds
    /\ searches[s].pc = "searchParts"
    /\ Commit([View EXCEPT !.results = resp])
    /\ searches' = [searches EXCEPT ![s] =
                       [pc |-> "listParts", payload |-> <<>>, caller |-> searches[s].caller,
                        response |-> resp,
                        latestStageHistory |->
                            IF Len(resp) > 0 THEN resp[1].stage_history ELSE NoHistory]]
    /\ UNCHANGED mutations

\* the finally block of performSearch
FinallyKeepsProgress(st, search) == [st EXCEPT !.loading = FALSE]
Finally(st, search) == finishProgress([st EXCEPT !.loading = FALSE], search.latestStageHistory)

\* performSearch has returned to the handler that awaited it:
\* handleSearchSelected then empties the batch selection
AfterPerformSearch(st, search) ==
    IF search.caller = "handleSearchSelected" THEN [st EXCEPT !.selectedIds = {}] ELSE st

\* the search request rejected: catch, then finally
SearchRejects(s, unauthorized) ==
    /\ s \in SearchIds
    /\ searches[s].pc = "searchParts"
    /\ Commit(AfterPerformSearch(
                  Finally([onRejected(View, unauthorized) EXCEPT !.snackbar = SearchErrorNotice],
                          searches[s]),
                  searches[s]))
    /\ searches' = Remove(searches, s)
    /\ UNCHANGED mutations

\* performSearch after refreshHistory returned: the no-results notice, finally
AfterRefreshSkipsFinally(st, search) ==
    IF Len(search.response) = 0 THEN [st EXCEPT !.snackbar = NoResultsNotice] ELSE st
AfterRefresh(st, search) ==
    Finally(IF Len(search.response) = 0 THEN [st EXCEPT !.snackbar = NoResultsNotice] ELSE st,
            search)

\* the listing request of refreshHistory resolved: setHistory(data)
ListResolves(s, data) ==
    /\ s \in SearchIds
    /\ searches[s].pc = "listParts"
    /\ Commit(AfterPerformSearch(AfterRefresh([View EXCEPT !.history = data], searches[s]),
                                 searches[s]))
    /\ searches' = Remove(searches, s)
    /\ UNCHANGED mutations

\* the listing request of refreshHistory rejected, caught inside refreshHistory
ListRejectsPropagates(s, unauthorized) ==
    /\ s \in SearchIds
    /\ searches[s].pc = "listParts"
    /\ Commit(AfterPerformSearch(
                  Finally([onRejected(View, unauthorized) EXCEPT !.snackbar = SearchErrorNotice],
                          searches[s]),
                  searches[s]))
    /\ searches' = Remove(searches, s)
    /\ UNCHANGED mutations
ListRejects(s, unauthorized) ==
    /\ s \in SearchIds
    /\ searches[s].pc = "listParts"
    /\ Commit(AfterPerformSearch(
                  AfterRefresh([onRejected(View, unauthorized) EXCEPT !.snackbar = ListErrorNotice],
                               searches[s]),
                  searches[s]))
    /\ searches' = Remove(searches, s)
    /\ UNCHANGED mutations

\* ------------------------------------------------------ specification
Next ==
    \/ Login
    \/ Logout
    \/ CloseSnackbar
    \/ \E targets \in TargetLists : PerformSearch(targets)
    \/ \E t \in TimerIds : Tick(t)
    \/ \E s \in 1..MaxSearches, resp \in SearchResponses : SearchResolves(s, resp)
    \/ \E s \in 1..MaxSearches, u \in BOOLEAN : SearchRejects(s, u)
    \/ \E s \in 1..MaxSearches, d \in Listings : ListResolves(s, d)
    \/ \E s \in 1..MaxSearches, u \in BOOLEAN : ListRejects(s, u)

Spec == Init /\ [][Next]_vars

\* The listing request of refreshHistory is an HTTP request: it ends with a
\* response or with a network error, and the event loop then runs the
\* continuation of the await. No such assumption is made for the search
\* request itself, nor for what the user does.
ListSettlement ==
    \E s \in 1..MaxSearches :
        \/ \E d \in Listings : ListResolves(s, d)
        \/ \E u \in BOOLEAN : ListRejects(s, u)

SpecLive == Spec /\ WF_vars(ListSettlement)

\* ------------------------------------------------------ the table page
\* the values typed into a column filter
FilterTexts == {<<>>, <<" ", "A">>}
MatchFilters == {"all", "matched", "mismatch", "pending", "none"}
ManufacturerFilters == {"all", "found", "missing"}

\* how many filters differ from their initial value
ActiveFilters(filters, found) ==
    Cardinality({c \in TextColumns : filters[c] # <<>>})
        + (IF filters.match # "all" THEN 1 ELSE 0)
        + (IF found # "all" THEN 1 ELSE 0)

\* the page with the table is rendered only with a session
TableShown == mounted /\ auth

\* onChange of a column filter field: setTableFilters(prev => ({...prev, [column]: value}))
SetTableFilter(column, text) ==
    LET filters == [tableFilters EXCEPT ![column] = text]
    IN /\ TableShown
       /\ ActiveFilters(filters, manufacturerFilter) <= MaxActiveFilters
       /\ Commit([View EXCEPT !.tableFilters = filters])
       /\ UNCHANGED <<searches, mutations>>

\* onChange of the status select
SetMatchFilter(match) ==
    LET filters == [tableFilters EXCEPT !.match = match]
    IN /\ TableShown
       /\ ActiveFilters(filters, manufacturerFilter) <= MaxActiveFilters
       /\ Commit([View EXCEPT !.tableFilters = filters])
       /\ UNCHANGED <<searches, mutations>>

\* onChange of the found/missing toggle: value && setManufacturerFilter(value)
SetManufacturerFilter(found) ==
    /\ TableShown
    /\ ActiveFilters(tableFilters, found) <= MaxActiveFilters
    /\ Commit([View EXCEPT !.manufacturerFilter = found])
    /\ UNCHANGED <<searches, mutations>>

\* the checkbox in the table head
handleSelectAllRows(checked) ==
    LET rows == filteredTableData(View)
    IN /\ TableShown
       /\ Len(rows) > 0
       /\ Commit([View EXCEPT !.selectedRows =
                     IF checked THEN [i \in 1..Len(rows) |-> rows[i].id] ELSE <<>>])
       /\ UNCHANGED <<searches, mutations>>

\* the checkbox of a rendered row
toggle(selected, id) ==
    IF \E k \in 1..Len(selected) : selected[k] = id
    THEN SelectSeq(selected, LAMBDA item : item # id)
    ELSE Append(selected, id)

handleToggleRowSelection(id) ==
    /\ TableShown
    /\ id \in Ids(filteredTableData(View))
    /\ Commit([View EXCEPT !.selectedRows = toggle(selectedRows, id)])
    /\ UNCHANGED <<searches, mutations>>

\* the records a listing may hold
TableRecords == UNION {RecordsOf(id) : id \in 1..MaxRecords}

InsertAt(seq, k, x) == SubSeq(seq, 1, k) \o <<x>> \o SubSeq(seq, k + 1, Len(seq))

\* handleDeletePartRow of the record at place i of the collection, when the
\* delete request and then the listing request of refreshHistory have
\* resolved: setHistory(data) with a listing that lacks the record, and the
\* notice
DeleteRefreshed(i) ==
    /\ TableShown
    /\ i \in 1..Len(history)
    /\ Commit([View EXCEPT !.history = Remove(history, i), !.snackbar = RowDeletedNotice])
    /\ UNCHANGED <<searches, mutations>>

\* submitManual, when the create request and then the listing request of
\* refreshHistory have resolved: the notice, and setHistory(data) with a
\* listing that holds the new record under an id not in use, at place k
ManualRefreshed(k, record) ==
    /\ TableShown
    /\ Len(history) < MaxRecords
    /\ k \in 0..Len(history)
    /\ record.id \notin Ids(history)
    /\ Commit([View EXCEPT !.history = InsertAt(history, k, record),
                           !.snackbar = AddedNotice])
    /\ UNCHANGED <<searches, mutations>>

NextTable ==
    \/ Login
    \/ Logout
    \/ \E column \in TextColumns, text \in FilterTexts : SetTableFilter(column, text)
    \/ \E match \in MatchFilters : SetMatchFilter(match)
    \/ \E found \in ManufacturerFilters : SetManufacturerFilter(found)
    \/ \E checked \in BOOLEAN : handleSelectAllRows(checked)
    \/ \E id \in 1..MaxRecords : handleToggleRowSelection(id)
    \/ \E i \in 1..MaxRecords : DeleteRefreshed(i)
    \/ \E k \in 0..MaxRecords, record \in TableRecords : ManualRefreshed(k, record)

SpecTable == Init /\ [][NextTable]_vars

\* ------------------------------------------------------ create and delete
MutationIds == 1..Len(mutations)

\* the operations whose handler is suspended at a request
InFlight == Len(searches) + Len(mutations)

\* the delete button of a rendered row: handleDeletePartRow up to its first
\* suspension, the delete request is sent
DeleteBegins(id) ==
    /\ TableShown
    /\ id \in Ids(filteredTableData(View))
    /\ InFlight < MaxInFlight
    /\ mutations' = Append(mutations, [handler |-> "handleDeletePartRow", pc |-> "deletePartById"])
    /\ Commit(View)
    /\ UNCHANGED searches

\* submitManual with a blank first row: the notice, return
ManualRejected(targets) ==
    /\ TableShown
    /\ Len(trim(targets[1].part_number)) = 0
    /\ Commit([View EXCEPT !.snackbar = ManualValidationNotice])
    /\ UNCHANGED <<searches, mutations>>

\* submitManual up to its first suspension: the create request is sent
ManualBegins(targets) ==
    /\ TableShown
    /\ Len(trim(targets[1].part_number)) > 0
    /\ InFlight < MaxInFlight
    /\ mutations' = Append(mutations, [handler |-> "submitManual", pc |-> "createPart"])
    /\ Commit(View)
    /\ UNCHANGED searches

submitManual(targets) == ManualRejected(targets) \/ ManualBegins(targets)

\* the delete request resolved: refreshHistory issues the listing request
DeleteResolvesPatches(m) ==
    /\ m \in MutationIds
    /\ mutations[m].pc = "deletePartById"
    /\ Commit([View EXCEPT !.history = IF history = <<>> THEN <<>> ELSE Tail(history),
                           !.snackbar = RowDeletedNotice])
    /\ mutations' = Remove(mutations, m)
    /\ UNCHANGED searches
DeleteResolves(m) ==
    /\ m \in MutationIds
    /\ mutations[m].pc = "deletePartById"
    /\ mutations' = [mutations EXCEPT ![m].pc = "listParts"]
    /\ Commit(View)
    /\ UNCHANGED searches

\* the delete request rejected: catch
DeleteRejects(m, unauthorized) ==
    /\ m \in MutationIds
    /\ mutations[m].pc = "deletePartById"
    /\ Commit([onRejected(View, unauthorized) EXCEPT !.snackbar = DeleteErrorNotice])
    /\ mutations' = Remove(mutations, m)
    /\ UNCHANGED searches

\* the create request resolved: the notice, and refreshHistory issues the
\* listing request
CreateResolves(m) ==
    /\ m \in MutationIds
    /\ mutations[m].pc = "createPart"
    /\ Commit([View EXCEPT !.snackbar = AddedNotice])
    /\ mutations' = [mutations EXCEPT ![m].pc = "listParts"]
    /\ UNCHANGED searches

\* the create request rejected: catch
CreateRejects(m, unauthorized) ==
    /\ m \in MutationIds
    /\ mutations[m].pc = "createPart"
    /\ Commit([onRejected(View, unauthorized) EXCEPT !.snackbar = CreateErrorNotice])
    /\ mutations' = Remove(mutations, m)
    /\ UNCHANGED searches

\* the handler after refreshHistory returned
AfterMutationRefresh(st, mutation) ==
    IF mutation.handler = "handleDeletePartRow"
    THEN [st EXCEPT !.snackbar = RowDeletedNotice]
    ELSE st

\* the listing request of refreshHistory resolved: setHistory(data)
RefreshResolves(m, data) ==
    /\ m \in MutationIds
    /\ mutations[m].pc = "listParts"
    /\ Commit(AfterMutationRefresh([View EXCEPT !.history = data], mutations[m]))
    /\ mutations' = Remove(mutations, m)
    /\ UNCHANGED searches

\* the listing request of refreshHistory rejected, caught inside refreshHistory
RefreshRejects(m, unauthorized) ==
    /\ m \in MutationIds
    /\ mutations[m].pc = "listParts"
    /\ Commit(AfterMutationRefresh(
                  [onRejected(View, unauthorized) EXCEPT !.snackbar = ListErrorNotice],
                  mutations[m]))
    /\ mutations' = Remove(mutations, m)
    /\ UNCHANGED searches

\* ----------------------------------- specification of the collection cache
\* a search is submitted while fewer than MaxInFlight operations are suspended
SearchBeginsInTurn(targets) ==
    /\ InFlight < MaxInFlight
    /\ SearchBegins(targets)

\* Every operation that writes to the server and every handler that writes
\* the cached collection, with at most MaxInFlight operations suspended at a
\* time; the simulator's ticks, which touch neither, are left to Spec.
NextData ==
    \/ Login
    \/ Logout
    \/ \E targets \in TargetLists : ValidationRejects(targets)
    \/ \E targets \in TargetLists : SearchBeginsInTurn(targets)
    \/ \E s \in 1..MaxSearches, resp \in SearchResponses : SearchResolves(s, resp)
    \/ \E s \in 1..MaxSearches, u \in BOOLEAN : SearchRejects(s, u)
    \/ \E s \in 1..MaxSearches, d \in Listings : ListResolves(s, d)
    \/ \E s \in 1..MaxSearches, u \in BOOLEAN : ListRejects(s, u)
    \/ \E id \in 1..MaxRecords : DeleteBegins(id)
    \/ \E targets \in TargetLists : submitManual(targets)
    \/ \E m \in 1..MaxInFlight : DeleteResolves(m)
    \/ \E m \in 1..MaxInFlight, u \in BOOLEAN : DeleteRejects(m, u)
    \/ \E m \in 1..MaxInFlight : CreateResolves(m)
    \/ \E m \in 1..MaxInFlight, u \in BOOLEAN : CreateRejects(m, u)
    \/ \E m \in 1..MaxInFlight, d \in Listings : RefreshResolves(m, d)
    \/ \E m \in 1..MaxInFlight, u \in BOOLEAN : RefreshRejects(m, u)

SpecData == Init /\ [][NextData]_vars

\* ------------------------------------------------------ the request form
\* the part numbers typed into a row
ItemTexts == {<<>>, <<" ", "A">>}

\* onChange of the part-number field of a row
handleItemChange(index, value) ==
    /\ TableShown
    /\ index \in 1..Len(items)
    /\ Commit([View EXCEPT !.items = [items EXCEPT ![index].part_number = value]])
    /\ UNCHANGED <<searches, mutations>>

addRow ==
    /\ TableShown
    /\ Len(items) < MaxRows
    /\ Commit([View EXCEPT !.items = Append(items, emptyItem)])
    /\ UNCHANGED <<searches, mutations>>

\* prev.length === 1 ? prev : prev.filter((_, idx) => idx !== index)
removeRowOfAny(rows, index) == Remove(rows, index)
removeRowOf(rows, index) == IF Len(rows) = 1 THEN rows ELSE Remove(rows, index)

removeRow(index) ==
    /\ TableShown
    /\ index \in 1..Len(items)
    /\ Commit([View EXCEPT !.items = removeRowOf(items, index)])
    /\ UNCHANGED <<searches, mutations>>

\* the items an upload response may carry (response.items ?? []): none, or
\* the rows read from the file
UploadedLists == {<<>>, <<Item(<<" ", "A">>)>>, <<Item(<<" ", "A">>), Item(<<>>)>>}

\* handleUpload with a file chosen, up to its first suspension: the upload
\* request is sent (the upload status line and the list kept for
\* runUploadedSearch are not part of the model)
UploadBegins ==
    /\ TableShown
    /\ InFlight < MaxInFlight
    /\ mutations' = Append(mutations, [handler |-> "handleUpload", pc |-> "uploadExcel"])
    /\ Commit(View)
    /\ UNCHANGED searches

\* setItems((response.items ?? []).length ? response.items : [{ ...emptyItem }])
importedRowsAsSent(imported) == imported
importedRows(imported) == IF Len(imported) > 0 THEN imported ELSE <<emptyItem>>

\* the upload request resolved: the rows of the form are replaced, the
\* notice, and refreshHistory issues the listing request
UploadResolves(m, imported) ==
    /\ m \in MutationIds
    /\ mutations[m].pc = "uploadExcel"
    /\ Commit([View EXCEPT !.items = importedRows(imported), !.snackbar = UploadedNotice])
    /\ mutations' = [mutations EXCEPT ![m].pc = "listParts"]
    /\ UNCHANGED searches

\* the upload request rejected: catch
UploadRejects(m, unauthorized) ==
    /\ m \in MutationIds
    /\ mutations[m].pc = "uploadExcel"
    /\ Commit([onRejected(View, unauthorized) EXCEPT !.snackbar = UploadErrorNotice])
    /\ mutations' = Remove(mutations, m)
    /\ UNCHANGED searches

\* the search button of the form: performSearch(items)
submitSearch == ValidationRejects(items) \/ SearchBeginsInTurn(items)

\* the button that adds the first row by hand
submitManualOfForm == submitManual(items)

\* The request form with every operation that calls the API, with at most
\* MaxInFlight operations suspended at a time.
NextForm ==
    \/ Login
    \/ Logout
    \/ \E index \in 1..MaxRows, value \in ItemTexts : handleItemChange(index, value)
    \/ addRow
    \/ \E index \in 1..MaxRows : removeRow(index)
    \/ submitSearch
    \/ submitManualOfForm
    \/ UploadBegins
    \/ \E m \in 1..MaxInFlight, imported \in UploadedLists : UploadResolves(m, imported)
    \/ \E m \in 1..MaxInFlight, u \in BOOLEAN : UploadRejects(m, u)
    \/ \E s \in 1..MaxSearches, resp \in SearchResponses : SearchResolves(s, resp)
    \/ \E s \in 1..MaxSearches, u \in BOOLEAN : SearchRejects(s, u)
    \/ \E s \in 1..MaxSearches, d \in Listings : ListResolves(s, d)
    \/ \E s \in 1..MaxSearches, u \in BOOLEAN : ListRejects(s, u)
    \/ \E id \in 1..MaxRecords : DeleteBegins(id)
    \/ \E m \in 1..MaxInFlight : DeleteResolves(m)
    \/ \E m \in 1..MaxInFlight, u \in BOOLEAN : DeleteRejects(m, u)
    \/ \E m \in 1..MaxInFlight : CreateResolves(m)
    \/ \E m \in 1..MaxInFlight, u \in BOOLEAN : CreateRejects(m, u)
    \/ \E m \in 1..MaxInFlight, d \in Listings : RefreshResolves(m, d)
    \/ \E m \in 1..MaxInFlight, u \in BOOLEAN : RefreshRejects(m, u)

SpecForm == Init /\ [][NextForm]_vars

\* ------------------------------------------------------ the batch search
\* filteredTableData of the component with the batch selection: only the
\* found/missing filter applies
filteredByManufacturer(st) == filteredRows(tableData(st.history), NoTableFilters, st.manufacturerFilter)

handleSelectAll(checked) ==
    /\ TableShown
    /\ Commit([View EXCEPT !.selectedIds =
                  IF checked THEN Ids(filteredByManufacturer(View)) ELSE {}])
    /\ UNCHANGED <<searches, mutations>>

handleSelectRow(id, checked) ==
    /\ TableShown
    /\ id \in Ids(history)
    /\ Commit([View EXCEPT !.selectedIds =
                  IF checked THEN selectedIds \cup {id} ELSE selectedIds \ {id}])
    /\ UNCHANGED <<searches, mutations>>

\* history.filter(part => selectedIds.has(part.id)).map(part => ({part_number: ...}))
selectedPartsOfAll(st) ==
    [i \in 1..Len(st.history) |-> Item(st.history[i].part_number)]
selectedParts(st) ==
    LET chosen == SelectSeq(st.history, LAMBDA part : part.id \in st.selectedIds)
    IN [i \in 1..Len(chosen) |-> Item(chosen[i].part_number)]

\* handleSearchSelected with nothing selected: the notice, return
BatchRejected ==
    /\ TableShown
    /\ selectedIds = {}
    /\ Commit([View EXCEPT !.snackbar = NoSelectionNotice])
    /\ UNCHANGED <<searches, mutations>>

\* handleSearchSelected up to the suspension of its performSearch, which has
\* sent the search request for the selected parts (the stage list it passes
\* on is not part of the model), while fewer than MaxInFlight operations
\* are suspended
BatchBegins ==
    /\ selectedIds # {}
    /\ InFlight < MaxInFlight
    /\ performSearchBegins(selectedParts(View), "handleSearchSelected")

handleSearchSelected == BatchRejected \/ BatchBegins

\* the records and the search responses of this specification: one record
\* for every id, no results or one result
BatchRecords == {CHOOSE r \in RecordsOf(id) : r.match_status \in {"matched", "mismatch"} :
                     id \in 1..MaxRecords}
BatchResponses == {<<>>, <<Result(SomeHistory(H_CSE))>>}

\* The table with the batch selection: records come and go through the
\* create and delete operations, the selection changes at any time, and a
\* batch search runs over it.
NextBatch ==
    \/ Login
    \/ Logout
    \/ \E checked \in BOOLEAN : handleSelectAll(checked)
    \/ \E id \in 1..MaxRecords, checked \in BOOLEAN : handleSelectRow(id, checked)
    \/ handleSearchSelected
    \/ \E i \in 1..MaxRecords : DeleteRefreshed(i)
    \/ \E k \in 0..MaxRecords, record \in BatchRecords : ManualRefreshed(k, record)
    \/ \E s \in 1..MaxSearches, resp \in BatchResponses : SearchResolves(s, resp)
    \/ \E s \in 1..MaxSearches, u \in BOOLEAN : SearchRejects(s, u)
    \/ \E s \in 1..MaxSearches, d \in Listings : ListResolves(s, d)
    \/ \E s \in 1..MaxSearches, u \in BOOLEAN : ListRejects(s, u)

SpecBatch == Init /\ [][NextBatch]_vars

\* ------------------------------------------------ the presentation settings
\* everything but the settings and the storage
session == <<auth, loading, stageProgress, currentService, progressIndexRef,
             progressTimerRef, timers, results, history, snackbar, tableFilters,
             manufacturerFilter, selectedRows, items, selectedIds, mounted,
             searches, mutations>>

\* handleThemeChange: if (value) setThemeMode(value); the effect on
\* [themeMode] then writes the theme to the storage
handleThemeChange(value) ==
    /\ mounted
    /\ themeMode' = value
    /\ storage' = [storage EXCEPT !.theme = value]
    /\ UNCHANGED <<session, tableSize, fontSize, columnWidths>>

\* onChange of the density toggle: value && setTableSize(value)
setTableSize(value) ==
    /\ TableShown
    /\ tableSize' = value
    /\ UNCHANGED <<session, storage, themeMode, fontSize, columnWidths>>

\* onChange of the font-size toggle: value && setFontSize(value)
setFontSize(value) ==
    /\ TableShown
    /\ fontSize' = value
    /\ UNCHANGED <<session, storage, themeMode, tableSize, columnWidths>>

\* the widths a drag asks for: startWidth + diff, any integer
RequestedWidths == {0 - 60, 0, 79, 140}

Resized(widths) == {c \in Columns : widths[c] # DefaultWidths[c]}

\* setColumnWidths(prev => ({...prev, [column]: Math.max(80, width)}))
resizedUnclamped(widths, column, width) == [widths EXCEPT ![column] = width]
resized(widths, column, width) == [widths EXCEPT ![column] = Max(MinWidth, width)]

\* onResize of a column head, called on every mouse move of a drag
handleColumnResize(column, width) ==
    /\ TableShown
    /\ Cardinality(Resized(resized(columnWidths, column, width))) <= MaxResized
    /\ columnWidths' = resized(columnWidths, column, width)
    /\ UNCHANGED <<session, storage, themeMode, tableSize, fontSize>>

\* the theme read from the storage when the component is constructed
storedTheme(store) == IF store.theme \in {"dark", "holiday"} THEN store.theme ELSE "light"

\* The page is loaded again: timers and pending requests are gone with the
\* old page, and the component is constructed anew, its state from the
\* useState initialisers, which read the session and the theme from the
\* storage.
Reload ==
    /\ auth' = storage.auth
    /\ themeMode' = storedTheme(storage)
    /\ tableSize' = "small"
    /\ fontSize' = "medium"
    /\ columnWidths' = DefaultWidths
    /\ loading' = FALSE
    /\ stageProgress' = IdleEntries
    /\ currentService' = IdleSentinel
    /\ progressIndexRef' = 0
    /\ progressTimerRef' = NoTimer
    /\ timers' = {}
    /\ results' = <<>>
    /\ history' = <<>>
    /\ snackbar' = NoNotice
    /\ tableFilters' = NoTableFilters
    /\ manufacturerFilter' = "all"
    /\ selectedRows' = <<>>
    /\ items' = <<emptyItem>>
    /\ selectedIds' = {}
    /\ mounted' = TRUE
    /\ searches' = <<>>
    /\ mutations' = <<>>
    /\ storage' = [storage EXCEPT !.theme = storedTheme(storage)]

NextSettings ==
    \/ Login
    \/ Logout
    \/ \E value \in ThemeModes : handleThemeChange(value)
    \/ \E value \in TableSizes : setTableSize(value)
    \/ \E value \in FontSizes : setFontSize(value)
    \/ \E column \in Columns, width \in RequestedWidths : handleColumnResize(column, width)
    \/ Reload

SpecSettings == Init /\ [][NextSettings]_vars

\* ------------------------------------------------------ unmount
\* the cleanup of the effect with no dependencies: the timer the component
\* holds is cleared (the reference keeps the handle)
CleanupKeepsTimer(ts, ref) == ts
CleanupClearsTimer(ts, ref) == IF ref # NoTimer THEN clearInterval(ts, ref) ELSE ts

\* The component unmounts: the effect cleanups run. Requests in flight go
\* on, and their continuations run later against an unmounted component.
Unmount ==
    /\ mounted
    /\ mounted' = FALSE
    /\ timers' = CleanupClearsTimer(timers, progressTimerRef)
    /\ UNCHANGED <<auth, loading, stageProgress, currentService, progressIndexRef,
                   progressTimerRef, results, history, snackbar, tableFilters,
                   manufacturerFilter, selectedRows, items, selectedIds, themeMode,
                   tableSize, fontSize, columnWidths, storage, searches, mutations>>

NextUnmount ==
    \/ Next
    \/ Unmount

SpecUnmount == Init /\ [][NextUnmount]_vars

\* ------------------------------------- specification of the reconciliation
\* The reconciler over every stage history up to MaxHistLen entries: the
\* state right after a search response arrived whose first result carries
\* the history (session open, simulator on stage 0, listing request pending),
\* then ticks in any number until the listing settles and finally runs.
HistoryNames == StageNames \cup {"Other"}
HistoryMessages == {Undefined, "matched via CSE"}
HistoryEntries ==
    {StageStatus(n, o, m) : n \in HistoryNames, o \in StageOutcomes, m \in HistoryMessages}
Histories == UNION {[1..n -> HistoryEntries] : n \in 0..MaxHistLen}

Suspended(h) ==
    [pc |-> "listParts", payload |-> <<>>, caller |-> "submitSearch",
     response |-> <<Result(SomeHistory(h))>>, latestStageHistory |-> SomeHistory(h)]

InitReconcile ==
    /\ searches \in {<<Suspended(h)>> : h \in Histories}
    /\ results = searches[1].response
    /\ auth = TRUE
    /\ loading = TRUE
    /\ stageProgress = StartEntries
    /\ currentService = stageLabels(STAGE_SEQUENCE[1])
    /\ progressIndexRef = 0
    /\ progressTimerRef = 1
    /\ timers = {1}
    /\ history = <<>>
    /\ snackbar = NoNotice
    /\ tableFilters = NoTableFilters
    /\ manufacturerFilter = "all"
    /\ selectedRows = <<>>
    /\ items = <<emptyItem>>
    /\ selectedIds = {}
    /\ themeMode = "light"
    /\ tableSize = "small"
    /\ fontSize = "medium"
    /\ columnWidths = DefaultWidths
    /\ storage = [auth |-> TRUE, theme |-> "light"]
    /\ mounted = TRUE
    /\ mutations = <<>>

NextReconcile ==
    \/ \E t \in TimerIds : Tick(t)
    \/ \E s \in 1..MaxSearches, d \in Listings : ListResolves(s, d)
    \/ \E s \in 1..MaxSearches, u \in BOOLEAN : ListRejects(s, u)

SpecReconcile == InitReconcile /\ [][NextReconcile]_vars

\* ------------------------------------- specification of the listing race
\* Two listing requests of refreshHistory are outstanding: a row was deleted
\* and handleDeletePartRow issued its listing request; then the response of
\* a search that had been submitted arrived, and performSearch issued the
\* later one. The collection still holds what was listed before the
\* deletion. The two responses arrive in either order, each with the data
\* the server held when it answered.
RaceHistories == UNION {[1..n -> HistoryEntries] : n \in 0..1}

ListedBefore == CHOOSE d \in Listings : d # <<>>

InitRace ==
    /\ searches \in {<<Suspended(h)>> : h \in RaceHistories}
    /\ mutations = <<[handler |-> "handleDeletePartRow", pc |-> "listParts"]>>
    /\ results = searches[1].response
    /\ auth = TRUE
    /\ loading = TRUE
    /\ stageProgress = StartEntries
    /\ currentService = stageLabels(STAGE_SEQUENCE[1])
    /\ progressIndexRef = 0
    /\ progressTimerRef = 1
    /\ timers = {1}
    /\ history = ListedBefore
    /\ snackbar = NoNotice
    /\ tableFilters = NoTableFilters
    /\ manufacturerFilter = "all"
    /\ selectedRows = <<>>
    /\ items = <<emptyItem>>
    /\ selectedIds = {}
    /\ themeMode = "light"
    /\ tableSize = "small"
    /\ fontSize = "medium"
    /\ columnWidths = DefaultWidths
    /\ storage = [auth |-> TRUE, theme |-> "light"]
    /\ mounted = TRUE

NextRace ==
    \/ \E t \in TimerIds : Tick(t)
    \/ \E s \in 1..MaxSearches, d \in Listings : ListResolves(s, d)
    \/ \E s \in 1..MaxSearches, u \in BOOLEAN : ListRejects(s, u)
    \/ \E m \in 1..MaxInFlight, d \in Listings : RefreshResolves(m, d)
    \/ \E m \in 1..MaxInFlight, u \in BOOLEAN : RefreshRejects(m, u)

SpecRace == InitRace /\ [][NextRace]_vars

\* ------------------------------------------------------ step predicates
\* Which handler a step is, told by what it does to the list of suspended
\* invocations: only SearchBegins appends to it, only SearchResolves moves an
\* invocation from the search request to the listing request, and only the
\* steps that end in the finally block of performSearch remove one.
StartStep == Len(searches') = Len(searches) + 1
TickStep ==
    /\ searches' = searches
    /\ \E t \in TimerIds : Tick(t)
ResponseStep(s) ==
    /\ s \in SearchIds
    /\ searches[s].pc = "searchParts"
    /\ Len(searches') = Len(searches)
    /\ searches'[s].pc = "listParts"
Leaves(s, pc) ==
    /\ s \in SearchIds
    /\ searches[s].pc = pc
    /\ searches' = Remove(searches, s)
ListSettles(s) == Leaves(s, "listParts")
SearchFails(s) == Leaves(s, "searchParts")
ValidationStep ==
    /\ searches' = searches
    /\ snackbar' = ValidationNotice
    /\ \E targets \in TargetLists : ValidationRejects(targets)
FinishStep ==
    \/ ValidationStep
    \/ \E s \in 1..MaxSearches : SearchFails(s) \/ ListSettles(s)
ResetStep ==
    /\ searches' = searches
    /\ Logout

ActiveStages(sp) == {i \in StageIdx : sp[i].state = "active"}
AllIdle(sp) == \A i \in StageIdx : sp[i].state = "idle"

\* ====================================================== claims
\* C1: in every reachable state at most one stage entry has state 'active'.
C1_AtMostOneActive == Cardinality(ActiveStages(stageProgress)) <= 1

\* a tick has moved the cursor: stage 0 is done and stage 1 is the active one
C1_Witness ==
    /\ stageProgress[1].state = "done"
    /\ ActiveStages(stageProgress) = {2}
    /\ timers # {}

\* C2: after startProgress and after every tick, every stage before the cursor
\* is done (so never pending), the stage at the cursor is active, and every
\* stage after the cursor is pending (so never done, warning or error).
OrderedAround(sp, cursor) ==
    \A i \in StageIdx :
        /\ i - 1 < cursor => sp[i].state = "done" /\ sp[i].state # "pending"
        /\ i - 1 = cursor => sp[i].state = "active"
        /\ i - 1 > cursor => sp[i].state = "pending" /\ sp[i].state \notin {"done", "warning", "error"}

C2_OrderedAfterTick ==
    [][(StartStep \/ TickStep) => OrderedAround(stageProgress', progressIndexRef')]_vars

\* the tick that reaches the last stage has run
C2_Witness ==
    /\ progressIndexRef = StageCount - 1
    /\ stageProgress[StageCount].state = "active"
    /\ \A i \in 1..(StageCount - 1) : stageProgress[i].state = "done"
    /\ timers = {}

\* C3: at most one interval timer is live after every step, and a
\* startProgress that finds a timer live leaves exactly one live timer, the
\* one it created.
C3_OneTimer ==
    [][/\ Cardinality(timers') <= 1
       /\ StartStep => /\ timers' = {progressTimerRef'}
                       /\ progressTimerRef' \notin timers]_vars

\* startProgress ran twice with no finishProgress in between: both searches
\* are still suspended and the second handle is the only live timer
C3_Witness ==
    /\ Len(searches) = 2
    /\ progressTimerRef = 2
    /\ timers = {2}

\* C4: finishProgress with a non-empty history shows every stage that has an
\* entry in the history with the state mapped from the (first) entry's status
\* and with that entry's message (null when the entry has none), shows every
\* other stage 'pending', and leaves no stage 'active' or 'idle'.
OutcomeDisplay ==
    ("success" :> "done") @@ ("low-confidence" :> "warning") @@
    ("no-results" :> "error") @@ ("skipped" :> "skipped")

ReconciledWith(sp, h) ==
    \A i \in StageIdx :
        LET hits == {k \in 1..Len(h) : h[k].name = STAGE_SEQUENCE[i]}
        IN /\ sp[i].name = STAGE_SEQUENCE[i]
           /\ sp[i].state \notin {"active", "idle"}
           /\ hits = {} => sp[i].state = "pending"
           /\ hits # {} =>
                 LET k == CHOOSE x \in hits : \A y \in hits : x <= y
                 IN /\ sp[i].state = OutcomeDisplay[h[k].status]
                    /\ sp[i].message =
                          IF h[k].message = Undefined THEN Null ELSE h[k].message

C4_MappedDisplay ==
    [][\A s \in 1..MaxSearches :
          (s \in SearchIds /\ ListSettles(s) /\ Len(searches[s].latestStageHistory.entries) > 0)
              => ReconciledWith(stageProgress', searches[s].latestStageHistory.entries)]_vars

\* the history [stage0: success, stage1: skipped] has been reconciled
C4_Witness ==
    /\ stageProgress[1].state = "done"
    /\ stageProgress[2].state = "skipped"
    /\ stageProgress[3].state = "pending"
    /\ currentService = stageLabels(STAGE_SEQUENCE[1])
    /\ searches = <<>>

\* C5: after finishProgress with a non-empty history the current-service value
\* is the label of the last history entry with status 'success'; with no
\* success, of the first entry with status 'low-confidence'; with neither,
\* the sentinel.
ServiceResolvedFrom(cs, h) ==
    LET won == {k \in 1..Len(h) : h[k].status = "success"}
        low == {k \in 1..Len(h) : h[k].status = "low-confidence"}
    IN /\ won # {} => cs = stageLabels(h[CHOOSE x \in won : \A y \in won : y <= x].name)
       /\ (won = {} /\ low # {}) =>
              cs = stageLabels(h[CHOOSE x \in low : \A y \in low : x <= y].name)
       /\ (won = {} /\ low = {}) => cs = IdleSentinel

C5_CurrentService ==
    [][\A s \in 1..MaxSearches :
          (s \in SearchIds /\ ListSettles(s) /\ Len(searches[s].latestStageHistory.entries) > 0)
              => ServiceResolvedFrom(currentService', searches[s].latestStageHistory.entries)]_vars

\* the history [stage0: no-results, stage1: low-confidence] has been reconciled
C5_Witness ==
    /\ stageProgress[1].state = "error"
    /\ stageProgress[2].state = "warning"
    /\ currentService = stageLabels(STAGE_SEQUENCE[2])
    /\ searches = <<>>

\* C6: finishProgress without a history, or with an empty one, leaves every
\* stage 'idle', the current-service value at the sentinel and no timer live,
\* whatever the progress state was before.
HasNoHistory(search) ==
    ~search.latestStageHistory.defined \/ Len(search.latestStageHistory.entries) = 0

NoHistoryFinish ==
    \/ ValidationStep
    \/ \E s \in 1..MaxSearches : SearchFails(s)
    \/ \E s \in 1..MaxSearches :
          s \in SearchIds /\ HasNoHistory(searches[s]) /\ ListSettles(s)

C6_NoHistoryResets ==
    [][NoHistoryFinish =>
          /\ AllIdle(stageProgress')
          /\ \A i \in StageIdx : stageProgress'[i].message = Undefined
          /\ currentService' = IdleSentinel
          /\ timers' = {}
          /\ progressTimerRef' = NoTimer]_vars

\* a search whose simulator had advanced failed, and the display is reset
C6_Witness ==
    /\ snackbar = SearchErrorNotice
    /\ auth
    /\ progressIndexRef > 0
    /\ AllIdle(stageProgress)
    /\ currentService = IdleSentinel
    /\ timers = {}

\* C7: once finishProgress has run no timer is live, and none becomes live
\* before the next startProgress, so no tick is applied in between: while no
\* timer is live the stage display changes only by a startProgress, another
\* finishProgress or a session reset, never by a tick.
C7_NoTickAfterFinish ==
    [][/\ FinishStep => timers' = {}
       /\ (timers = {} /\ ~StartStep) => timers' = {}
       /\ TickStep => timers # {}
       /\ (timers = {} /\ stageProgress' # stageProgress)
              => (StartStep \/ FinishStep \/ ResetStep)]_vars

\* a tick had run, then finishProgress wrote the reconciled state
C7_Witness ==
    /\ progressIndexRef = 1
    /\ stageProgress[1].state = "error"
    /\ stageProgress[2].state = "done"
    /\ timers = {}
    /\ progressTimerRef = NoTimer

\* C8: when the search request settles the timer is cancelled before any
\* state is written: the step that handles the search response leaves no
\* timer live, and no tick is applied while a search has its response but
\* has not been reconciled.
C8_CancelBeforeWrite ==
    [][/\ (\E s \in 1..MaxSearches : ResponseStep(s)) => timers' = {}
       /\ TickStep => \A s \in SearchIds : searches[s].pc # "listParts"]_vars

\* C9: the response of a search that is not the newest one in flight changes
\* neither the progress state, the current-service value, the results, the
\* loading flag nor the live timer.
StaleSettles(s) ==
    \/ ResponseStep(s)
    \/ SearchFails(s) /\ SearchRejects(s, FALSE)
    \/ ListSettles(s) /\ ((\E d \in Listings : ListResolves(s, d)) \/ ListRejects(s, FALSE))

C9_StaleResponseIgnored ==
    [][\A s \in 1..MaxSearches :
          (s < Len(searches) /\ StaleSettles(s))
              => UNCHANGED <<stageProgress, currentService, results, loading,
                             timers, progressTimerRef>>]_vars

\* C10: when the search request rejects, after the handler no timer is live,
\* every stage is 'idle', current-service is the sentinel, the loading flag
\* is false and the search-failure notice is set.
C10_FailedSearchResets ==
    [][(\E s \in 1..MaxSearches : SearchFails(s)) =>
          /\ timers' = {}
          /\ progressTimerRef' = NoTimer
          /\ AllIdle(stageProgress')
          /\ currentService' = IdleSentinel
          /\ ~loading'
          /\ snackbar' = SearchErrorNotice]_vars

\* the only search in flight failed before any tick
C10_Witness ==
    /\ snackbar = SearchErrorNotice
    /\ ~loading
    /\ progressIndexRef = 0
    /\ searches = <<>>
    /\ AllIdle(stageProgress)
    /\ currentService = IdleSentinel
    /\ timers = {}

\* C11: when performSearch is invoked with targets none of which has a
\* non-blank part number, no search request is sent, no timer is created and
\* no stage becomes 'active', the loading flag stays false, the validation
\* notice is set, results and the cached collection are untouched, and the
\* progress state is reset to all-'idle' with the sentinel current-service.
AllBlank(targets) ==
    \A i \in 1..Len(targets) :
        \A k \in 1..Len(targets[i].part_number) : targets[i].part_number[k] = " "

BlankSearchStep ==
    /\ CanSubmit
    /\ \E targets \in TargetLists : AllBlank(targets) /\ PerformSearch(targets)

C11_BlankSearchRejected ==
    [][BlankSearchStep =>
          /\ searches' = searches
          /\ timers' \subseteq timers
          /\ progressTimerRef' = NoTimer
          /\ ActiveStages(stageProgress') = {}
          /\ ~loading'
          /\ snackbar' = ValidationNotice
          /\ AllIdle(stageProgress')
          /\ currentService' = IdleSentinel
          /\ results' = results
          /\ history' = history]_vars

\* a blank search was rejected after an earlier search had been reconciled:
\* the reconciled display is reset and the earlier results are still shown
C11_Witness ==
    /\ snackbar = ValidationNotice
    /\ auth
    /\ ~loading
    /\ Len(results) > 0
    /\ searches = <<>>
    /\ AllIdle(stageProgress)
    /\ currentService = IdleSentinel
    /\ timers = {}

\* C12: when the search request succeeded with zero results, the finish of
\* that search still leaves a reconciled stage display (every stage shows a
\* mapped outcome or 'pending', none is 'idle' or 'active', so the display is
\* not the reset one) and the 'no results' notice is set.
EmptySearchSettles(s) ==
    /\ s \in SearchIds
    /\ Len(searches[s].response) = 0
    /\ ListSettles(s)

C12_EmptyResultReconciled ==
    [][\A s \in 1..MaxSearches :
          (EmptySearchSettles(s) /\ auth')
              => /\ \A i \in StageIdx :
                       stageProgress'[i].state \in
                           {"done", "warning", "error", "skipped", "pending"}
                 /\ ~AllIdle(stageProgress')
                 /\ snackbar' = NoResultsNotice]_vars

\* C13: no failure of a collaborator leaves the progress display stuck. The
\* step in which a search ends, whether its search request failed or its
\* follow-up listing request resolved or failed, leaves no stage 'active' and
\* no timer live; and a search whose request succeeded does not wait for ever:
\* whenever a search awaits its listing, eventually no stage is 'active' and
\* no timer is live.
AwaitsListing == \E s \in SearchIds : searches[s].pc = "listParts"
Quiescent ==
    /\ ActiveStages(stageProgress) = {}
    /\ timers = {}

C13_NeverStuck ==
    /\ [][(\E s \in 1..MaxSearches : SearchFails(s) \/ ListSettles(s)) => Quiescent']_vars
    /\ AwaitsListing ~> Quiescent

\* the simulator reached the last stage and stopped its timer, the listing
\* request then failed, and no stage is left 'active'
C13_Witness ==
    /\ snackbar = ListErrorNotice
    /\ auth
    /\ progressIndexRef = StageCount - 1
    /\ searches = <<>>
    /\ Quiescent

\* C14: the end-to-end trace of one search. Submitting a search makes stage 0
\* 'active' and the later stages 'pending'; one tick before any response makes
\* stage 0 'done' and stage 1 'active'; and when the search whose first result
\* carries the history [Internet: no-results, googlesearch: success with
\* message 'matched via CSE'] ends, stage 0 is 'error', stage 1 is 'done' with
\* that message, stage 2 is 'pending' and current-service is the label of
\* googlesearch.
FirstTick ==
    /\ TickStep
    /\ progressIndexRef = 0
    /\ stageProgress[1].state = "active"

EndsWithCSE(s) ==
    /\ s \in SearchIds
    /\ searches[s].response # <<>>
    /\ searches[s].response[1].stage_history = SomeHistory(H_CSE)
    /\ ListSettles(s)

C14_EndToEnd ==
    [][/\ StartStep =>
             /\ stageProgress'[1].state = "active"
             /\ stageProgress'[2].state = "pending"
             /\ stageProgress'[3].state = "pending"
       /\ FirstTick =>
             /\ stageProgress'[1].state = "done"
             /\ stageProgress'[2].state = "active"
             /\ stageProgress'[3].state = "pending"
       /\ (\E s \in 1..MaxSearches : EndsWithCSE(s)) =>
             /\ stageProgress'[1].state = "error"
             /\ stageProgress'[2].state = "done"
             /\ stageProgress'[2].message = "matched via CSE"
             /\ stageProgress'[3].state = "pending"
             /\ currentService' = stageLabels("googlesearch")]_vars

\* the end of the trace: one tick was applied, the response with the CSE
\* history was written and reconciled, the listing was loaded
C14_Witness ==
    /\ progressIndexRef = 1
    /\ results = <<Result(SomeHistory(H_CSE))>>
    /\ Len(history) = 1
    /\ ~loading
    /\ searches = <<>>
    /\ stageProgress[1].state = "error"
    /\ stageProgress[2] = Entry("googlesearch", "done", "matched via CSE")
    /\ stageProgress[3].state = "pending"
    /\ currentService = stageLabels("googlesearch")

\* C15: the selection is always a subset of the ids of the filtered rows:
\* after a handler that changes a filter or the collection (a re-fetch after a
\* deletion or a creation, a logout) has run, with the effect it triggers, no
\* selected id is missing from filteredTableData.
C15_SelectionVisible ==
    \A k \in 1..Len(selectedRows) : selectedRows[k] \in Ids(filteredTableData(View))

\* a row is still selected while a filter hides another record of the
\* collection
C15_Witness ==
    /\ Len(history) = 2
    /\ Len(filteredTableData(View)) = 1
    /\ Len(selectedRows) = 1
    /\ ActiveFilters(tableFilters, manufacturerFilter) > 0

\* C16: with the other filters as they are, the rows kept under 'found' and
\* the rows kept under 'missing' have no row in common, and together they are
\* exactly the rows kept under 'all'.
RowSet(rows) == {rows[i] : i \in 1..Len(rows)}
KeptUnder(found) == RowSet(filteredRows(tableData(history), tableFilters, found))

C16_FoundMissingPartition ==
    /\ KeptUnder("found") \cap KeptUnder("missing") = {}
    /\ KeptUnder("found") \cup KeptUnder("missing") = KeptUnder("all")

\* the collection holds a found and a missing record, a column filter is set
\* and keeps both, and the 'found' filter shows one of them
C16_Witness ==
    /\ Cardinality(KeptUnder("found")) = 1
    /\ Cardinality(KeptUnder("missing")) = 1
    /\ manufacturerFilter = "found"
    /\ \E c \in TextColumns : tableFilters[c] # <<>>
    /\ Len(filteredTableData(View)) = 1

\* C17 as claimed: filteredTableData holds exactly the rows of tableData, in
\* their order, that satisfy every filter, where a column filter is satisfied
\* when the value typed into it occurs in the cell regardless of case (always,
\* when it is empty), the status filter when it is 'all', or 'none' and the
\* row has no status, or equal to the row's status, and the found/missing
\* filter when it is 'all', or 'found' and the row has a manufacturer other
\* than the placeholder and is no mismatch, or 'missing' and the row is not
\* found.
SameLetter(c, d) ==
    \/ c = d
    \/ \E k \in 1..Len(UpperCase) : {c, d} = {UpperCase[k], LowerCase[k]}

OccursIn(term, cell) ==
    \E start \in 0..Len(cell) :
        /\ start + Len(term) <= Len(cell)
        /\ \A k \in 1..Len(term) : SameLetter(cell[start + k], term[k])

Cell(row, column) ==
    CASE column = "article" -> row.article
      [] column = "manufacturer" -> row.manufacturer
      [] column = "alias" -> row.alias
      [] column = "submitted" -> row.submitted
      [] column = "service" -> row.service
      [] column = "source" -> row.source

StatusWanted(row) ==
    \/ tableFilters.match = "all"
    \/ tableFilters.match = "none" /\ row.matchStatus = Null
    \/ tableFilters.match \notin {"all", "none"} /\ row.matchStatus = tableFilters.match

FoundWanted(row) ==
    LET found == row.manufacturer # Placeholder /\ row.matchStatus # "mismatch"
    IN \/ manufacturerFilter = "all"
       \/ manufacturerFilter = "found" /\ found
       \/ manufacturerFilter = "missing" /\ ~found

WantedAsTyped(row) ==
    /\ \A column \in TextColumns : OccursIn(tableFilters[column], Cell(row, column))
    /\ StatusWanted(row)
    /\ FoundWanted(row)

C17_FilterAsTyped ==
    filteredTableData(View) = SelectSeq(tableData(history), WantedAsTyped)

\* C17 as amended: the same, where a column filter is satisfied when the
\* value typed into it, without its leading and trailing spaces, occurs in
\* the cell regardless of case (always, when nothing but spaces was typed).
Stripped(text) ==
    LET inked == {k \in 1..Len(text) : text[k] # " "}
    IN IF inked = {} THEN <<>>
       ELSE SubSeq(text, CHOOSE k \in inked : \A j \in inked : k <= j,
                         CHOOSE k \in inked : \A j \in inked : j <= k)

Wanted(row) ==
    /\ \A column \in TextColumns : OccursIn(Stripped(tableFilters[column]), Cell(row, column))
    /\ StatusWanted(row)
    /\ FoundWanted(row)

C17_FilterConjunction ==
    filteredTableData(View) = SelectSeq(tableData(history), Wanted)

\* two filters are set, one of them a column filter typed with a leading
\* space, and they keep one of two records
C17_Witness ==
    /\ Len(history) = 2
    /\ Len(filteredTableData(View)) = 1
    /\ ActiveFilters(tableFilters, manufacturerFilter) = 2
    /\ \E c \in TextColumns : tableFilters[c] = <<" ", "A">>

\* C18: the rows of tableData are the records of the collection, each once,
\* in ascending order of the instant of created_at, and two records created
\* at the same instant stand in the order they have in the collection.
PlaceOf(id) == CHOOSE i \in 1..Len(history) : history[i].id = id

C18_SortedStable ==
    LET rows == tableData(history)
    IN /\ Len(rows) = Len(history)
       /\ Ids(rows) = Ids(history)
       /\ \A i, j \in 1..Len(rows) :
             i < j =>
                 /\ getTime(rows[i].createdAt) <= getTime(rows[j].createdAt)
                 /\ getTime(rows[i].createdAt) = getTime(rows[j].createdAt)
                        => PlaceOf(rows[i].id) < PlaceOf(rows[j].id)

\* the collection lists a later record before an earlier one, and the table
\* shows them the other way round
C18_Witness ==
    /\ Len(history) = 2
    /\ getTime(history[1].created_at) > getTime(history[2].created_at)
    /\ tableData(history)[1].id = history[2].id

\* C19: a record whose manufacturer_name, alias_used, submitted_manufacturer,
\* search_stage and source_url are all null or absent is shown with the
\* placeholder in the manufacturer, alias, submitted, service and source
\* cells, none of which is empty.
AllOptionalAbsent(record) ==
    /\ ~record.manufacturer_name.defined
    /\ ~record.alias_used.defined
    /\ ~record.submitted_manufacturer.defined
    /\ ~record.search_stage.defined
    /\ ~record.source_url.defined

C19_PlaceholderCells ==
    LET rows == tableData(history)
    IN \A i \in 1..Len(history) :
          AllOptionalAbsent(history[i]) =>
              \E k \in 1..Len(rows) :
                  /\ rows[k].id = history[i].id
                  /\ \A column \in TextColumns \ {"article"} :
                        /\ Cell(rows[k], column) = Placeholder
                        /\ Cell(rows[k], column) # <<>>

\* the collection holds a record with every optional field absent, next to
\* one with every field set
C19_Witness ==
    /\ Len(history) = 2
    /\ \E i \in 1..2 : AllOptionalAbsent(history[i])
    /\ \E i \in 1..2 : history[i].match_status = "matched"
    /\ TableShown

\* C20 as claimed: every create, search or delete operation ends only after
\* its listing request has settled, so no invocation ends while it still
\* waits for its own request; and the cached collection is written only by
\* the step that handles a listing response, which replaces it with the
\* listing, and by a session reset, which empties it.
MutationLeaves(m, pc) ==
    /\ m \in MutationIds
    /\ mutations[m].pc = pc
    /\ mutations' = Remove(mutations, m)

ListingHandled ==
    \/ \E s \in 1..MaxSearches : ListSettles(s)
    \/ \E m \in 1..MaxInFlight : MutationLeaves(m, "listParts")

EndsWithoutListing ==
    \/ \E s \in 1..MaxSearches : SearchFails(s)
    \/ \E m \in 1..MaxInFlight :
          MutationLeaves(m, "deletePartById") \/ MutationLeaves(m, "createPart")

OnlyListingsWritten ==
    history' # history =>
        \/ ListingHandled /\ history' \in Listings
        \/ history' = <<>> /\ ~auth'

FailureNotices == {SearchErrorNotice, DeleteErrorNotice, CreateErrorNotice}

FullReset(st) ==
    /\ ~st.auth
    /\ st.results = <<>>
    /\ st.history = <<>>
    /\ st.items = <<emptyItem>>
    /\ AllIdle(st.stageProgress)
    /\ st.currentService = IdleSentinel
    /\ ~st.loading

ClearedAfter ==
    /\ ~auth'
    /\ results' = <<>>
    /\ history' = <<>>
    /\ items' = <<emptyItem>>
    /\ ~loading'
    /\ ~storage'.auth

C21_UnauthorizedResets ==
    [][/\ \A s \in 1..MaxSearches :
              /\ SearchRejects(s, TRUE) =>
                     /\ FullReset(onRejected(View, TRUE))
                     /\ ClearedAfter
                     /\ snackbar' = SearchErrorNotice
              /\ ListRejects(s, TRUE) =>
                     /\ FullReset(onRejected(View, TRUE))
                     /\ ClearedAfter
                     /\ snackbar' \in {ListErrorNotice, NoResultsNotice}
       /\ \A m \in 1..MaxInFlight :
              /\ DeleteRejects(m, TRUE) =>
                     /\ FullReset(onRejected(View, TRUE))
                     /\ ClearedAfter
                     /\ FullReset(View')
                     /\ snackbar' = DeleteErrorNotice
              /\ CreateRejects(m, TRUE) =>
                     /\ FullReset(onRejected(View, TRUE))
                     /\ ClearedAfter
                     /\ FullReset(View')
                     /\ snackbar' = CreateErrorNotice
              /\ RefreshRejects(m, TRUE) =>
                     /\ FullReset(onRejected(View, TRUE))
                     /\ ClearedAfter
                     /\ FullReset(View')
                     /\ snackbar' \in {ListErrorNotice, RowDeletedNotice}]_vars

\* a row had been typed and a search was in flight when its request was
\* answered with 401: the session is gone and the form is back to one empty
\* row, under the notice of the failed search
C21_Witness ==
    /\ ~auth
    /\ ~storage.auth
    /\ snackbar = SearchErrorNotice
    /\ items = <<emptyItem>>
    /\ results = <<>>
    /\ history = <<>>
    /\ AllIdle(stageProgress)
    /\ searches = <<>>
    /\ mutations = <<>>

\* C22: the request of a batch search carries the part numbers of the
\* records that were selected when the batch was invoked, and while the
\* request is in flight no step, a change of the selection included, changes
\* what it carries.
PartNumbers(list) == {list[i].part_number : i \in 1..Len(list)}

SelectedNow == {history[i].part_number : i \in {k \in 1..Len(history) : history[k].id \in selectedIds}}

BatchStartStep ==
    /\ StartStep
    /\ searches'[Len(searches')].caller = "handleSearchSelected"

\* every invocation that is suspended at its search request before and after
\* the step carries the same items
RequestsUntouched ==
    \/ /\ Len(searches') = Len(searches) + 1
       /\ \A s \in SearchIds : searches'[s] = searches[s]
    \/ /\ Len(searches') = Len(searches)
       /\ \A s \in SearchIds :
              searches'[s].pc = "searchParts" => searches'[s].payload = searches[s].payload
    \/ \E r \in SearchIds : searches' = Remove(searches, r)

C22_BatchTargetsFixed ==
    [][/\ BatchStartStep => PartNumbers(searches'[Len(searches')].payload) = SelectedNow
       /\ RequestsUntouched]_vars

\* a batch request is in flight and the selection is no longer the one it
\* was invoked with
C22_Witness ==
    \E s \in SearchIds :
        /\ searches[s].caller = "handleSearchSelected"
        /\ searches[s].pc = "searchParts"
        /\ Len(searches[s].payload) = 2
        /\ Cardinality(selectedIds) = 1
        /\ PartNumbers(searches[s].payload) # SelectedNow

\* C23: every change of a presentation setting (a column width, the density
\* tier, the font-size tier) is in the storage at once, so that the page
\* loaded again shows the changed value and not the initial one.
C23_SettingsSurviveReload ==
    [][Reload => /\ tableSize' = tableSize
                 /\ fontSize' = fontSize
                 /\ columnWidths' = columnWidths]_vars

\* C24: after any resize events, whatever width they ask for, every column
\* is at least 80 wide, so never zero or negative; a resize of one column
\* leaves the width of every other column as it was.
ResizeStep(column) == \E width \in RequestedWidths : handleColumnResize(column, width)

C24_WidthFloor ==
    /\ [](\A column \in Columns : columnWidths[column] >= 80 /\ columnWidths[column] > 0)
    /\ [][\A column \in Columns :
             ResizeStep(column) =>
                 \A other \in Columns \ {column} : columnWidths'[other] = columnWidths[other]]_vars

\* a drag asked for less than the floor on one column after another column
\* was widened
C24_Witness ==
    /\ columnWidths.article = 80
    /\ columnWidths.source = 140
    /\ \A column \in Columns \ {"article", "source"} :
           columnWidths[column] = DefaultWidths[column]

\* C25: every search request that is sent carries at least one item, and
\* every item it carries has a part number with a character that is not
\* white space; an item whose part number is blank is not in the request.
NonBlank(text) == \E k \in 1..Len(text) : text[k] # " "

C25_RequestItemsFilled ==
    \A s \in SearchIds :
        searches[s].pc = "searchParts" =>
            /\ Len(searches[s].payload) >= 1
            /\ \A i \in 1..Len(searches[s].payload) :
                   NonBlank(searches[s].payload[i].part_number)

\* the search was submitted with a blank row and a filled row: the request
\* in flight carries the filled row alone, as typed
C25_Witness ==
    \E s \in SearchIds :
        /\ searches[s].pc = "searchParts"
        /\ searches[s].payload = <<Item(<<" ", "A", " ">>)>>

\* C26: startProgress, whatever the progress state was before (idle, in the
\* middle of a simulation, or reconciled with done, warning, error or skipped
\* entries and their messages), sets the cursor to 0, makes stage 0 'active'
\* and every other stage 'pending', with no message on any stage, sets
\* current-service to the label of stage 0 and leaves one live timer.
C26_StartFromAnyState ==
    [][StartStep =>
          /\ progressIndexRef' = 0
          /\ \A i \in StageIdx :
                 /\ stageProgress'[i].name = STAGE_SEQUENCE[i]
                 /\ stageProgress'[i].state = IF i = 1 THEN "active" ELSE "pending"
                 /\ stageProgress'[i].message = Undefined
          /\ currentService' = "Internet - obshchiy poisk"
          /\ Cardinality(timers') = 1
          /\ timers' = {progressTimerRef'}]_vars

\* the results of a search that was reconciled with a message on stage 1
\* are still shown, and the next search has started
C26_Witness ==
    /\ results = <<Result(SomeHistory(H_CSE))>>
    /\ Len(searches) = 1
    /\ searches[1].pc = "searchParts"
    /\ progressIndexRef = 0
    /\ stageProgress[1].state = "active"
    /\ stageProgress[2].message = Undefined
    /\ Cardinality(timers) = 1

\* C27: each tick advances the cursor by exactly one and never past the last
\* stage index; the tick that brings the cursor to the last index cancels
\* the timer, so at most (number of stages - 1) ticks follow one
\* startProgress; and the cursor never decreases before the next
\* startProgress.
C27_TickAdvancesByOne ==
    /\ [](progressIndexRef \in 0..(StageCount - 1))
    /\ [][/\ TickStep =>
               /\ progressIndexRef' = progressIndexRef + 1
               /\ progressIndexRef' <= StageCount - 1
               /\ progressIndexRef' = StageCount - 1 =>
                      (timers' = {} /\ progressTimerRef' = NoTimer)
          /\ ~StartStep => progressIndexRef' >= progressIndexRef]_vars

\* the last tick has run while the search is still in flight: the cursor is
\* on the last stage and the timer is gone
C27_Witness ==
    /\ progressIndexRef = StageCount - 1
    /\ timers = {}
    /\ progressTimerRef = NoTimer
    /\ loading
    /\ Len(searches) = 1
    /\ ActiveStages(stageProgress) = {StageCount}

\* C28: finishProgress called twice in a row with the same argument leaves
\* the progress state, the current-service value and the timer state that
\* one call leaves; called when no timer is live it cancels nothing.
SameProgress(a, b) ==
    /\ a.stageProgress = b.stageProgress
    /\ a.currentService = b.currentService
    /\ a.timers = b.timers
    /\ a.progressTimerRef = b.progressTimerRef

C28_FinishIdempotent ==
    \A hist \in {NoHistory} \cup {searches[s].latestStageHistory : s \in SearchIds} :
        LET once == finishProgress(View, hist)
            twice == finishProgress(once, hist)
        IN /\ SameProgress(twice, once)
           /\ once.timers = {} /\ once.progressTimerRef = NoTimer
           /\ progressTimerRef = NoTimer =>
                  (once.timers = timers /\ once.progressTimerRef = progressTimerRef)

\* the simulator has stopped by itself on the last stage and the response,
\* with a history of two entries, is still to be reconciled: no timer is
\* live when finishProgress runs
C28_Witness ==
    /\ timers = {}
    /\ progressTimerRef = NoTimer
    /\ progressIndexRef = StageCount - 1
    /\ Len(searches) = 1
    /\ Len(searches[1].latestStageHistory.entries) = 2
    /\ searches[1].latestStageHistory.entries[1].name = searches[1].latestStageHistory.entries[2].name

\* C29: when the component unmounts while a simulator timer is live, the
\* timer is cancelled, and no tick is applied after the unmount.
C29_UnmountCancelsTimer ==
    /\ [](~mounted => timers = {})
    /\ [][/\ (mounted /\ ~mounted') => timers' = {}
          /\ TickStep => (mounted /\ mounted')]_vars

\* the component unmounted with its search in flight and the timer live:
\* the reference still holds the handle of the cancelled timer, the stage it
\* had reached is still the active one
C29_Witness ==
    /\ ~mounted
    /\ progressTimerRef # NoTimer
    /\ timers = {}
    /\ Len(searches) = 1
    /\ progressIndexRef = 1
    /\ ActiveStages(stageProgress) = {2}

\* C30: in every reachable state in which a stage entry is 'active', the
\* current-service value is the label of that stage.
C30_ServiceOfActiveStage ==
    \A i \in StageIdx :
        stageProgress[i].state = "active" =>
            currentService = stageLabels(STAGE_SEQUENCE[i])

\* a logout reset the display while the timer was live, and the next tick
\* made stage 1 active again, with its label
C30_Witness ==
    /\ ~auth
    /\ ActiveStages(stageProgress) = {2}
    /\ currentService = "GoogleSearch - Google CSE"
    /\ stageProgress[1].state = "done"

\* C31 as claimed: at most one search request is in flight at any time.
RequestsInFlight == {s \in SearchIds : searches[s].pc = "searchParts"}

DisplayReset ==
    /\ AllIdle(stageProgress)
    /\ currentService = IdleSentinel

C32_ResetStaysIdle ==
    [][(~auth /\ DisplayReset) => DisplayReset']_vars

\* C33: while no session exists the search results and the cached collection
\* are empty; a search response or a listing response that arrives after
\* the reset writes neither.
C33_NoDataWithoutSession ==
    ~auth => (results = <<>> /\ history = <<>>)

\* C34 as claimed: after finishProgress with any non-empty history, repeated
\* stage names, names outside STAGE_SEQUENCE and entries out of stage order
\* included, a current-service value other than the sentinel is the label of
\* a stage that is displayed 'done' or 'warning'.
Reconciles(s) ==
    /\ s \in SearchIds
    /\ ListSettles(s)
    /\ Len(searches[s].latestStageHistory.entries) > 0

LabelOfFinishedStage(cs, sp) ==
    \E i \in StageIdx :
        /\ cs = stageLabels(STAGE_SEQUENCE[i])
        /\ sp[i].state \in {"done", "warning"}

C34_ServiceOfFinishedStage ==
    [][\A s \in 1..MaxSearches :
          (Reconciles(s) /\ currentService' # IdleSentinel)
              => LabelOfFinishedStage(currentService', stageProgress')]_vars

\* C34 as amended: the same for every non-empty history in which no stage
\* name occurs twice, its entries in any order, except that a deciding entry
\* whose name is none of STAGE_SEQUENCE gives its own name as current-service.
NoNameTwice(h) == \A j, k \in 1..Len(h) : h[j].name = h[k].name => j = k

NameOfUnknownStage(cs, h) ==
    \E k \in 1..Len(h) :
        /\ h[k].name \notin StageNames
        /\ h[k].status \in {"success", "low-confidence"}
        /\ cs = h[k].name

C34_ServiceOfDistinctStages ==
    [][\A s \in 1..MaxSearches :
          (/\ Reconciles(s)
           /\ NoNameTwice(searches[s].latestStageHistory.entries)
           /\ currentService' # IdleSentinel)
              => \/ LabelOfFinishedStage(currentService', stageProgress')
                 \/ NameOfUnknownStage(currentService', searches[s].latestStageHistory.entries)]_vars

\* a history with a low-confidence Internet and a successful googlesearch,
\* in either order, was reconciled: the success decides, and its stage is
\* shown 'done' next to the warning of the stage before it
C34_Witness ==
    /\ searches = <<>>
    /\ stageProgress[1].state = "warning"
    /\ stageProgress[2].state = "done"
    /\ stageProgress[2].message = "matched via CSE"
    /\ stageProgress[3].state = "pending"
    /\ currentService = stageLabels("googlesearch")

\* C35: when a search whose request returned at least one result ends, the
\* stage display and the current-service value are those the stage history
\* of the first result gives, whatever the other results carry; when the
\* first result has no stage history or an empty one, every stage is 'idle'
\* and current-service is the sentinel.
EndsWithResults(s) ==
    /\ s \in SearchIds
    /\ Len(searches[s].response) > 0
    /\ ListSettles(s)

C35_FirstResultDecides ==
    [][\A s \in 1..MaxSearches :
          EndsWithResults(s) =>
              LET first == searches[s].response[1].stage_history
              IN IF first.defined /\ Len(first.entries) > 0
                 THEN /\ ReconciledWith(stageProgress', first.entries)
                      /\ ServiceResolvedFrom(currentService', first.entries)
                 ELSE /\ AllIdle(stageProgress')
                      /\ currentService' = IdleSentinel]_vars

\* a search returned two results, the first without a stage history and the
\* second with one: it ended with the results shown and the display reset
C35_Witness ==
    /\ Len(results) = 2
    /\ ~results[1].stage_history.defined
    /\ Len(results[2].stage_history.entries) > 0
    /\ searches = <<>>
    /\ auth
    /\ ~loading
    /\ snackbar # SearchErrorNotice
    /\ AllIdle(stageProgress)
    /\ currentService = IdleSentinel

\* C36: the cached collection reflects the response of the listing request
\* issued last: once the later request (the search's) has been answered with
\* a listing, the response to the earlier one (the deletion's), arriving
\* after it, does not replace the collection.
LaterListingLoaded ==
    /\ searches = <<>>
    /\ auth
    /\ snackbar # ListErrorNotice

C36_NewestListingKept ==
    [][\A m \in 1..MaxInFlight :
          (LaterListingLoaded /\ MutationLeaves(m, "listParts")) => history' = history]_vars

\* C37 as claimed: a failure of the listing request inside refreshHistory
\* leaves the cached collection unchanged, sets a notice and does not
\* propagate; a search whose search request succeeded and whose listing
\* failed is reconciled with the stage history the search returned and is
\* not treated as a failed search.
ReconciledAsReturned(search) ==
    LET h == search.latestStageHistory
    IN /\ snackbar' \in {ListErrorNotice, NoResultsNotice}
       /\ ~loading'
       /\ timers' = {}
       /\ IF h.defined /\ Len(h.entries) > 0
          THEN /\ ReconciledWith(stageProgress', h.entries)
               /\ ServiceResolvedFrom(currentService', h.entries)
          ELSE /\ AllIdle(stageProgress')
               /\ currentService' = IdleSentinel

ListingFailureHandled(kept(_)) ==
    /\ \A s \in 1..MaxSearches, u \in BOOLEAN :
           ListRejects(s, u) => (kept(u) /\ ReconciledAsReturned(searches[s]))
    /\ \A m \in 1..MaxInFlight, u \in BOOLEAN :
           RefreshRejects(m, u) => (kept(u) /\ snackbar' \in {ListErrorNotice, RowDeletedNotice})

CollectionKept(unauthorized) == history' = history

C37_ListingFailureContained == [][ListingFailureHandled(CollectionKept)]_vars

\* C37 as amended: the same, except that the collection is emptied, with the
\* rest of the session state, when the failure is a 401 response.
CollectionKeptOrReset(unauthorized) ==
    history' = IF unauthorized THEN <<>> ELSE history

C37_ListingFailureContainedOr401 == [][ListingFailureHandled(CollectionKeptOrReset)]_vars

\* a search returned a result with a stage history and its listing request
\* then failed: the collection loaded by an earlier operation is still
\* there, the results are shown and the display is reconciled
C37_Witness ==
    /\ snackbar = ListErrorNotice
    /\ auth
    /\ ~loading
    /\ searches = <<>>
    /\ Len(history) = 1
    /\ results = <<Result(SomeHistory(H_CSE))>>
    /\ stageProgress[1].state = "error"
    /\ stageProgress[2].state = "done"
    /\ currentService = stageLabels("googlesearch")

\* C38: the list of request rows is never empty, whatever rows are added,
\* removed or edited, whatever an upload returns and across logouts and
\* unauthorized resets; removeRow on a list of one row leaves the list as
\* it is.
C38_ItemsNeverEmpty ==
    /\ [](Len(items) >= 1)
    /\ [][\A index \in 1..MaxRows :
             (Len(items) = 1 /\ removeRow(index)) => items' = items]_vars

\* a row had been typed when an upload that imported nothing was answered:
\* the form shows one empty row
C38_Witness ==
    /\ snackbar = UploadedNotice
    /\ items = <<emptyItem>>
    /\ \E m \in MutationIds : mutations[m].handler = "handleUpload" /\ mutations[m].pc = "listParts"

\* C39: the projection and the filter neither invent nor duplicate rows.
\* tableData has as many rows as the collection has records, one row under
\* the id and with the part number of each record; filteredTableData is a
\* sub-list of tableData: its rows are rows of tableData, each taken at most
\* once, in the order they have there.
Injective(f) == \A a, b \in DOMAIN f : f[a] = f[b] => a = b
Increasing(f) == \A a, b \in DOMAIN f : a < b => f[a] < f[b]

OneRowPerRecord(rows, records) ==
    /\ Len(rows) = Len(records)
    /\ \E place \in [1..Len(rows) -> 1..Len(records)] :
           /\ Injective(place)
           /\ \A k \in 1..Len(rows) :
                  /\ rows[k].id = records[place[k]].id
                  /\ rows[k].article = records[place[k]].part_number
                  /\ rows[k].createdAt = records[place[k]].created_at

SubList(part, whole) ==
    /\ Len(part) <= Len(whole)
    /\ \E place \in [1..Len(part) -> 1..Len(whole)] :
           /\ Increasing(place)
           /\ \A k \in 1..Len(part) : part[k] = whole[place[k]]

C39_RowsNeitherInventedNorDoubled ==
    /\ OneRowPerRecord(tableData(history), history)
    /\ SubList(filteredTableData(View), tableData(history))

\* the collection lists a later record before an earlier one, and a filter
\* is set that keeps both of them: the table shows both, the earlier first
C39_Witness ==
    /\ Len(history) = 2
    /\ getTime(history[1].created_at) > getTime(history[2].created_at)
    /\ ActiveFilters(tableFilters, manufacturerFilter) > 0
    /\ Len(filteredTableData(View)) = 2
    /\ filteredTableData(View)[1].id = history[2].id

====
